---- MODULE Spec2Model ----
(***************************************************************************)
(* Model of the voice-controlled game map: the GameMap state machine of    *)
(* game_state.py and the two boundaries of backend/main.py that drive it   *)
(* (the REST endpoints and _execute_tool).  Strings are TLA+ strings and   *)
(* every message is built as the code formats it, so that the substring    *)
(* tests of the boundaries are computed, not assumed.                      *)
(***************************************************************************)
EXTENDS Integers, Sequences, FiniteSets, TLC

\* game: the GameMap the module global of backend/main.py refers to
\* uuid_count: how many ids uuid4 has handed out
\* request, response: the call and the answer of a caller who is alone
\* threads: for each concurrent caller, where the worker thread that
\*          serves its call stands and what it holds in its locals
VARIABLES game, uuid_count, request, response, threads

vars == <<game, uuid_count, request, response, threads>>

(***************************************************************************)
(* Bounds of the model.                                                    *)
(***************************************************************************)
\* how many entries of LOCATIONS the model's map starts with
NumLocations == 2
\* how many ids uuid4 hands out in one run
MaxIds == 4
\* a call is taken only while turn_logs is shorter than this
MaxLog == 2

(***************************************************************************)
(* Python values.                                                          *)
(***************************************************************************)
\* Optional[x]: None is the empty tuple, a value x is <<x>>
None == <<>>
Some(x) == <<x>>

Char(s, i) == SubSeq(s, i, i)

\* the letters str.lower() changes
LowerOf ==
    "A" :> "a" @@ "B" :> "b" @@ "C" :> "c" @@ "D" :> "d" @@ "E" :> "e"
    @@ "F" :> "f" @@ "G" :> "g" @@ "H" :> "h" @@ "I" :> "i" @@ "J" :> "j"
    @@ "K" :> "k" @@ "L" :> "l" @@ "M" :> "m" @@ "N" :> "n" @@ "O" :> "o"
    @@ "P" :> "p" @@ "Q" :> "q" @@ "R" :> "r" @@ "S" :> "s" @@ "T" :> "t"
    @@ "U" :> "u" @@ "V" :> "v" @@ "W" :> "w" @@ "X" :> "x" @@ "Y" :> "y"
    @@ "Z" :> "z"

\* one character of str.lower()
lower_char(c) == IF c \in DOMAIN LowerOf THEN LowerOf[c] ELSE c

\* str.lower(), from the i-th character on
RECURSIVE lower_from(_, _)
lower_from(s, i) ==
    IF i > Len(s) THEN ""
    ELSE lower_char(Char(s, i)) \o lower_from(s, i + 1)

lower(s) == lower_from(s, 1)

\* str.strip() of the characters i to j of s: drops the leading and the
\* trailing blanks
RECURSIVE strip_between(_, _, _)
strip_between(s, i, j) ==
    IF i > j THEN ""
    ELSE IF Char(s, i) = " " THEN strip_between(s, i + 1, j)
    ELSE IF Char(s, j) = " " THEN strip_between(s, i, j - 1)
    ELSE SubSeq(s, i, j)

strip(s) == strip_between(s, 1, Len(s))

\* str.startswith(p)
startswith(s, p) == Len(p) <= Len(s) /\ SubSeq(s, 1, Len(p)) = p

\* p in s
contains(s, p) ==
    \E i \in 1..(Len(s) - Len(p) + 1) : SubSeq(s, i, i + Len(p) - 1) = p

(***************************************************************************)
(* Locations and entity records.                                           *)
(***************************************************************************)
ALL_LOCATIONS ==
    << [name |-> "North Ridge",    xy |-> <<30, 8>>],
       [name |-> "Castle",         xy |-> <<28, 16>>],
       [name |-> "River Crossing", xy |-> <<37, 23>>],
       [name |-> "Forest Edge",    xy |-> <<8, 14>>],
       [name |-> "Mountain Pass",  xy |-> <<52, 8>>],
       [name |-> "Village",        xy |-> <<44, 24>>],
       [name |-> "Tower",          xy |-> <<14, 26>>],
       [name |-> "Bridge",         xy |-> <<38, 14>>] >>

\* the map of the model: the first NumLocations entries of the source's map
LOCATIONS == SubSeq(ALL_LOCATIONS, 1, NumLocations)

\* LOCATIONS.get(name, (0, 0))
LOCATIONS_get(name) ==
    IF \E i \in 1..Len(LOCATIONS) : LOCATIONS[i].name = name
    THEN LOCATIONS[CHOOSE i \in 1..Len(LOCATIONS) : LOCATIONS[i].name = name].xy
    ELSE <<0, 0>>

\* f"{kind}-{uuid.uuid4().hex[:8]}": the n-th id handed out
MakeId(kind, n) == kind \o "-" \o ToString(n)

make_knight(id, name, location_name) ==
    [id |-> id, name |-> name, location |-> location_name,
     coordinates |-> LOCATIONS_get(location_name), grace_turn |-> FALSE]

make_dragon_spot(id, location_name, dragon_type) ==
    [id |-> id, location |-> location_name,
     coordinates |-> LOCATIONS_get(location_name),
     type |-> dragon_type, status |-> "active"]

\* location_name and linked_dragon_spot_id are Optional; the record has no
\* coordinates key until create_target adds one
make_target(id, location_name, linked_dragon_spot_id) ==
    [id |-> id,
     location |-> IF location_name = None \/ location_name = Some("")
                  THEN "" ELSE location_name[1],
     linked_dragon_spot_id |-> linked_dragon_spot_id,
     status |-> "active",
     coordinates |-> None]

make_trebuchet(id, location_name) ==
    [id |-> id, location |-> location_name,
     coordinates |-> LOCATIONS_get(location_name)]

\* GameMap.__init__
GameMap ==
    [locations |-> LOCATIONS,
     knights |-> <<>>,
     dragon_spots |-> <<>>,
     targets |-> <<>>,
     trebuchets |-> <<>>,
     game_active |-> FALSE,
     turn_count |-> 0,
     trebuchet_cooldown |-> 0,
     turn_logs |-> <<>>,
     effect_knight_killed_at |-> None,
     effect_dragon_killed_by_knight_at |-> None,
     effect_dragon_killed_by_artillery_at |-> None]

\* the result of a handler: the world it leaves and the message it returns
Result(g, msg) == [g |-> g, msg |-> msg]

\* index of the first record of s, from the i-th on, whose id is id; 0 if
\* none
RECURSIVE IndexOfIdFrom(_, _, _)
IndexOfIdFrom(s, id, i) ==
    IF i > Len(s) THEN 0
    ELSE IF s[i].id = id THEN i
    ELSE IndexOfIdFrom(s, id, i + 1)

IndexOfId(s, id) == IndexOfIdFrom(s, id, 1)

\* index of the first record of s, from the i-th on, whose name is wanted
\* once lower-cased; 0 if none
RECURSIVE IndexOfNameFrom(_, _, _)
IndexOfNameFrom(s, wanted, i) ==
    IF i > Len(s) THEN 0
    ELSE IF lower(s[i].name) = wanted THEN i
    ELSE IndexOfNameFrom(s, wanted, i + 1)

IndexOfName(s, wanted) == IndexOfNameFrom(s, wanted, 1)

\* list.pop(i)
Pop(s, i) == SubSeq(s, 1, i - 1) \o SubSeq(s, i + 1, Len(s))

(***************************************************************************)
(* Location registry.                                                      *)
(***************************************************************************)
\* _resolve_location comparing the stored keys with the trimmed name as
\* given, without lower-casing either
resolve_location_exact(g, location_name) ==
    LET wanted == strip(location_name)
        hits == {n \in 1..Len(g.locations) : g.locations[n].name = wanted}
    IN  IF hits # {}
        THEN [g |-> g, xy |-> g.locations[CHOOSE n \in hits : TRUE].xy]
        ELSE [g |-> [g EXCEPT !.locations =
                        Append(@, [name |-> strip(location_name), xy |-> <<0, 0>>])],
              xy |-> <<0, 0>>]

\* _resolve_location: the coordinates, and the registry it leaves
resolve_location(g, location_name) ==
    LET wanted == lower(strip(location_name))
        hit == IndexOfName(g.locations, wanted)
    IN  IF hit # 0
        THEN [g |-> g, xy |-> g.locations[hit].xy]
        ELSE [g |-> [g EXCEPT !.locations =
                        Append(@, [name |-> strip(location_name), xy |-> <<0, 0>>])],
              xy |-> <<0, 0>>]

\* _canonical_location_name comparing the stored keys with the name as
\* given, without lower-casing either
canonical_location_name_exact(g, location_name) ==
    LET name == strip(location_name)
        hit == IndexOfName(g.locations, name)
    IN  IF hit # 0 THEN g.locations[hit].name ELSE name

\* _canonical_location_name
canonical_location_name(g, location_name) ==
    LET name == strip(location_name)
        wanted == lower(name)
        hit == IndexOfName(g.locations, wanted)
    IN  IF hit # 0 THEN g.locations[hit].name ELSE name

(***************************************************************************)
(* Session log.                                                            *)
(***************************************************************************)
\* the log keeps this many of its latest lines
LogLimit == 100

\* _log keeping the oldest lines instead of the latest
log_keeps_oldest(g, message) ==
    LET appended == Append(g.turn_logs, message)
    IN  [g EXCEPT !.turn_logs =
            IF Len(appended) > LogLimit
            THEN SubSeq(appended, 1, LogLimit)
            ELSE appended]

\* _log
log(g, message) ==
    LET appended == Append(g.turn_logs, message)
    IN  [g EXCEPT !.turn_logs =
            IF Len(appended) > LogLimit
            THEN SubSeq(appended, Len(appended) - LogLimit + 1, Len(appended))
            ELSE appended]

\* log_player_action
log_player_action(g, message) == log(g, message)

\* set_game_active counting a turn
set_game_active_counted(g, active) ==
    log([g EXCEPT !.game_active = active, !.turn_count = @ + 1],
        IF ~active THEN "Game paused (sandbox mode)."
        ELSE "Game started (simulation mode).")

\* GameMap.set_game_active
set_game_active(g, active) ==
    log([g EXCEPT !.game_active = active],
        IF ~active THEN "Game paused (sandbox mode)."
        ELSE "Game started (simulation mode).")

(***************************************************************************)
(* Knights.                                                                *)
(***************************************************************************)
\* move_knight taking the last knight of the store that fits, not the first
move_knight_last_match(g, to_location_name, knight_name) ==
    IF Len(g.knights) = 0
    THEN Result(g, "No knights on the map. Create a knight first.")
    ELSE LET canonical == canonical_location_name(g, to_location_name)
             r == resolve_location(g, to_location_name)
             wanted == lower(knight_name[1])
             fits == IF knight_name = None THEN 1..Len(r.g.knights)
                     ELSE {k \in 1..Len(r.g.knights) :
                              lower(r.g.knights[k].name) = wanted}
             i == IF fits = {} THEN 0
                  ELSE CHOOSE k \in fits : \A m \in fits : m <= k
         IN  IF i = 0
             THEN Result(r.g, "No knight named '" \o knight_name[1] \o "' found.")
             ELSE Result([r.g EXCEPT !.knights[i] =
                             [@ EXCEPT !.location = canonical,
                                       !.coordinates = r.xy,
                                       !.grace_turn = TRUE]],
                         "Moved knight '" \o r.g.knights[i].name \o "' to "
                             \o canonical \o ".")

\* move_knight that forgets to give the moved knight its grace turn
move_knight_without_grace(g, to_location_name, knight_name) ==
    IF Len(g.knights) = 0
    THEN Result(g, "No knights on the map. Create a knight first.")
    ELSE LET canonical == canonical_location_name(g, to_location_name)
             r == resolve_location(g, to_location_name)
             wanted == lower(knight_name[1])
             i == IF knight_name = None THEN 1
                  ELSE IndexOfName(r.g.knights, wanted)
         IN  IF i = 0
             THEN Result(r.g, "No knight named '" \o knight_name[1] \o "' found.")
             ELSE Result([r.g EXCEPT !.knights[i] =
                             [@ EXCEPT !.location = canonical,
                                       !.coordinates = r.xy]],
                         "Moved knight '" \o r.g.knights[i].name \o "' to "
                             \o canonical \o ".")

\* knight_name is Optional
move_knight(g, to_location_name, knight_name) ==
    IF Len(g.knights) = 0
    THEN Result(g, "No knights on the map. Create a knight first.")
    ELSE LET canonical == canonical_location_name(g, to_location_name)
             r == resolve_location(g, to_location_name)
             wanted == lower(knight_name[1])
             i == IF knight_name = None THEN 1
                  ELSE IndexOfName(r.g.knights, wanted)
         IN  IF i = 0
             THEN Result(r.g, "No knight named '" \o knight_name[1] \o "' found.")
             ELSE Result([r.g EXCEPT !.knights[i] =
                             [@ EXCEPT !.location = canonical,
                                       !.coordinates = r.xy,
                                       !.grace_turn = TRUE]],
                         "Moved knight '" \o r.g.knights[i].name \o "' to "
                             \o canonical \o ".")

\* add_knight storing the trimmed location name as given instead of the
\* canonical one
add_knight_as_given(g, id, name, location_name) ==
    LET r == resolve_location(g, location_name)
        knight == [make_knight(id, name, strip(location_name))
                      EXCEPT !.coordinates = r.xy]
    IN  Result([r.g EXCEPT !.knights = Append(@, knight)],
               "Added knight '" \o name \o "' at "
                   \o canonical_location_name(g, location_name) \o ".")

add_knight(g, id, name, location_name) ==
    LET canonical == canonical_location_name(g, location_name)
        r == resolve_location(g, location_name)
        knight == [make_knight(id, name, canonical) EXCEPT !.coordinates = r.xy]
    IN  Result([r.g EXCEPT !.knights = Append(@, knight)],
               "Added knight '" \o name \o "' at " \o canonical \o ".")

delete_knight(g, knight_id) ==
    LET i == IndexOfId(g.knights, knight_id)
    IN  IF i # 0
        THEN Result([g EXCEPT !.knights = Pop(@, i)],
                    "Removed knight " \o knight_id \o ".")
        ELSE Result(g, "Knight " \o knight_id \o " not found.")

(***************************************************************************)
(* Dragon spots.                                                           *)
(***************************************************************************)
create_dragon_spot(g, id, location_name, dragon_type) ==
    LET canonical == canonical_location_name(g, location_name)
        r == resolve_location(g, location_name)
        spot == [make_dragon_spot(id, canonical, dragon_type)
                     EXCEPT !.coordinates = r.xy]
    IN  Result([r.g EXCEPT !.dragon_spots = Append(@, spot)],
               "Created dragon spot (" \o dragon_type \o ") at "
                   \o location_name \o ".")

delete_dragon_spot(g, dragon_spot_id) ==
    LET i == IndexOfId(g.dragon_spots, dragon_spot_id)
    IN  IF i # 0
        THEN Result([g EXCEPT !.dragon_spots = Pop(@, i)],
                    "Removed dragon spot " \o dragon_spot_id \o ".")
        ELSE Result(g, "Dragon spot " \o dragon_spot_id \o " not found.")

(***************************************************************************)
(* Trebuchet.                                                              *)
(***************************************************************************)
trebuchet_available(g) ==
    g.trebuchet_cooldown = 0 /\ Len(g.trebuchets) = 0

\* create_trebuchet that builds again in the last turn of the cooldown
create_trebuchet_early(g, id, location_name) ==
    IF g.trebuchet_cooldown > 1
    THEN Result(g, "Cannot build trebuchet: cooldown active ("
                       \o ToString(g.trebuchet_cooldown) \o " turns remaining).")
    ELSE IF Len(g.trebuchets) # 0
    THEN Result(g, "Cannot build trebuchet: one already exists. Use artillery to fire it, then wait for cooldown.")
    ELSE LET canonical == canonical_location_name(g, location_name)
             r == resolve_location(g, location_name)
             treb == [make_trebuchet(id, canonical) EXCEPT !.coordinates = r.xy]
         IN  Result([r.g EXCEPT !.trebuchets = Append(@, treb)],
                    "Built trebuchet at " \o canonical \o ".")

\* create_trebuchet without the test for a standing trebuchet
create_trebuchet_unguarded(g, id, location_name) ==
    IF g.trebuchet_cooldown > 0
    THEN Result(g, "Cannot build trebuchet: cooldown active ("
                       \o ToString(g.trebuchet_cooldown) \o " turns remaining).")
    ELSE LET canonical == canonical_location_name(g, location_name)
             r == resolve_location(g, location_name)
             treb == [make_trebuchet(id, canonical) EXCEPT !.coordinates = r.xy]
         IN  Result([r.g EXCEPT !.trebuchets = Append(@, treb)],
                    "Built trebuchet at " \o canonical \o ".")

\* create_trebuchet without the test of the cooldown
create_trebuchet_during_cooldown(g, id, location_name) ==
    IF Len(g.trebuchets) # 0
    THEN Result(g, "Cannot build trebuchet: one already exists. Use artillery to fire it, then wait for cooldown.")
    ELSE LET canonical == canonical_location_name(g, location_name)
             r == resolve_location(g, location_name)
             treb == [make_trebuchet(id, canonical) EXCEPT !.coordinates = r.xy]
         IN  Result([r.g EXCEPT !.trebuchets = Append(@, treb)],
                    "Built trebuchet at " \o canonical \o ".")

create_trebuchet(g, id, location_name) ==
    IF g.trebuchet_cooldown > 0
    THEN Result(g, "Cannot build trebuchet: cooldown active ("
                       \o ToString(g.trebuchet_cooldown) \o " turns remaining).")
    ELSE IF Len(g.trebuchets) # 0
    THEN Result(g, "Cannot build trebuchet: one already exists. Use artillery to fire it, then wait for cooldown.")
    ELSE LET canonical == canonical_location_name(g, location_name)
             r == resolve_location(g, location_name)
             treb == [make_trebuchet(id, canonical) EXCEPT !.coordinates = r.xy]
         IN  Result([r.g EXCEPT !.trebuchets = Append(@, treb)],
                    "Built trebuchet at " \o canonical \o ".")

(***************************************************************************)
(* Targets and attack resolution.                                          *)
(***************************************************************************)
\* Python truth of an Optional[str]: neither None nor ""
truthy(opt) == opt # None /\ opt[1] # ""

\* create_target that makes the dragon spot it links to active again
create_target_reviving(g, id, location_name, linked_dragon_spot_id) ==
    LET i == IF truthy(linked_dragon_spot_id)
             THEN IndexOfId(g.dragon_spots, linked_dragon_spot_id[1])
             ELSE 0
        loc == IF i # 0 THEN Some(g.dragon_spots[i].location) ELSE location_name
        made == make_target(id, loc, linked_dragon_spot_id)
        target == IF truthy(loc)
                  THEN [made EXCEPT !.location = loc[1],
                                    !.coordinates = Some(<<0, 0>>)]
                  ELSE made
        revived == IF i # 0
                   THEN [g EXCEPT !.dragon_spots[i].status = "active"]
                   ELSE g
    IN  Result([revived EXCEPT !.targets = Append(@, target)],
               "Created target at "
                   \o (IF target.location # "" THEN target.location
                       ELSE "linked location") \o ".")

\* location_name and linked_dragon_spot_id are Optional
create_target(g, id, location_name, linked_dragon_spot_id) ==
    IF truthy(linked_dragon_spot_id)
    THEN LET i == IndexOfId(g.dragon_spots, linked_dragon_spot_id[1])
             loc == IF i # 0 THEN Some(g.dragon_spots[i].location) ELSE None
             coords == IF i # 0 THEN g.dragon_spots[i].coordinates ELSE <<0, 0>>
             made == make_target(id, loc, linked_dragon_spot_id)
             target == IF truthy(loc)
                       THEN [made EXCEPT !.location = loc[1],
                                         !.coordinates = Some(coords)]
                       ELSE made
         IN  Result([g EXCEPT !.targets = Append(@, target)],
                    "Created target at "
                        \o (IF target.location # "" THEN target.location
                            ELSE "linked location") \o ".")
    ELSE LET given == IF location_name = None THEN "" ELSE location_name[1]
             canonical == canonical_location_name(g, given)
             made == make_target(id, IF canonical = "" THEN None ELSE Some(canonical),
                                 None)
             r == IF truthy(location_name)
                  THEN resolve_location(g, location_name[1])
                  ELSE [g |-> g, xy |-> <<0, 0>>]
             target == IF truthy(location_name)
                       THEN [made EXCEPT !.location = canonical,
                                         !.coordinates = Some(r.xy)]
                       ELSE made
         IN  Result([r.g EXCEPT !.targets = Append(@, target)],
                    "Created target at "
                        \o (IF target.location # "" THEN target.location
                            ELSE "linked location") \o ".")

\* _neutralize_target that leaves the linked dragon spot alone
neutralize_target_only(g, ti) ==
    [g EXCEPT !.targets[ti].status = "neutralized"]

\* _neutralize_target taking the linked dragon spot out of the store
neutralize_target_pops_spot(g, ti) ==
    LET linked == g.targets[ti].linked_dragon_spot_id
        di == IF truthy(linked)
              THEN IndexOfId(g.dragon_spots, linked[1])
              ELSE 0
        g1 == [g EXCEPT !.targets[ti].status = "neutralized"]
    IN  IF di # 0
        THEN [g1 EXCEPT !.dragon_spots = Pop(@, di)]
        ELSE g1

\* _neutralize_target giving up when the linked dragon spot is not in the
\* store
neutralize_target_needs_spot(g, ti) ==
    LET linked == g.targets[ti].linked_dragon_spot_id
        di == IF truthy(linked)
              THEN IndexOfId(g.dragon_spots, linked[1])
              ELSE 0
    IN  IF truthy(linked) /\ di = 0
        THEN g
        ELSE IF di # 0
        THEN [g EXCEPT !.targets[ti].status = "neutralized",
                       !.dragon_spots[di].status = "neutralized"]
        ELSE [g EXCEPT !.targets[ti].status = "neutralized"]

\* _neutralize_target, for the target at index ti
neutralize_target(g, ti) ==
    LET linked == g.targets[ti].linked_dragon_spot_id
        g1 == [g EXCEPT !.targets[ti].status = "neutralized"]
        di == IF truthy(linked)
              THEN IndexOfId(g.dragon_spots, linked[1])
              ELSE 0
    IN  IF di # 0
        THEN [g1 EXCEPT !.dragon_spots[di].status = "neutralized"]
        ELSE g1

\* _knight_at_location that passes over the knights in their grace turn
knight_at_location_without_grace(g, location) ==
    \E i \in 1..Len(g.knights) :
        g.knights[i].location = location /\ ~g.knights[i].grace_turn

knight_at_location(g, location) ==
    \E i \in 1..Len(g.knights) : g.knights[i].location = location

\* AttackMethod(attack_method.lower()): the enum value, None on ValueError
AttackMethod(attack_method) ==
    IF lower(attack_method) \in {"knight", "artillery"}
    THEN Some(lower(attack_method))
    ELSE None

\* indices of the targets, from the i-th on, linked to the spot id, in order
RECURSIVE LinkedIndicesFrom(_, _, _)
LinkedIndicesFrom(targets, id, i) ==
    IF i > Len(targets) THEN <<>>
    ELSE (IF targets[i].linked_dragon_spot_id = Some(id) THEN <<i>> ELSE <<>>)
             \o LinkedIndicesFrom(targets, id, i + 1)

\* the loop of attack_target firing artillery without looking for a trebuchet
RECURSIVE attack_resolved_without_trebuchet(_, _, _)
attack_resolved_without_trebuchet(g, resolved, method) ==
    IF Len(resolved) = 0
    THEN Result(g, "Target(s) neutralized (" \o method \o ").")
    ELSE LET ti == Head(resolved)
             loc == g.targets[ti].location
         IN  IF method = "knight" /\ ~knight_at_location(g, loc)
             THEN Result(g, "Cannot attack with knight: no knight at " \o loc
                            \o ". Move a knight there first or use artillery.")
             ELSE LET g1 == IF method = "artillery"
                            THEN [g EXCEPT
                                    !.trebuchets = <<>>,
                                    !.trebuchet_cooldown = 3,
                                    !.effect_dragon_killed_by_artillery_at = Some(loc)]
                            ELSE [g EXCEPT
                                    !.effect_dragon_killed_by_knight_at = Some(loc)]
                  IN  attack_resolved_without_trebuchet(
                          neutralize_target(g1, ti), Tail(resolved), method)

\* the loop of attack_target firing artillery without consuming the trebuchet
RECURSIVE attack_resolved_trebuchet_kept(_, _, _)
attack_resolved_trebuchet_kept(g, resolved, method) ==
    IF Len(resolved) = 0
    THEN Result(g, "Target(s) neutralized (" \o method \o ").")
    ELSE LET ti == Head(resolved)
             loc == g.targets[ti].location
         IN  IF method = "knight" /\ ~knight_at_location(g, loc)
             THEN Result(g, "Cannot attack with knight: no knight at " \o loc
                            \o ". Move a knight there first or use artillery.")
             ELSE IF method = "artillery" /\ Len(g.trebuchets) = 0
             THEN Result(g, "Cannot attack with artillery: no trebuchet on the map. Build one first (when cooldown allows).")
             ELSE LET g1 == IF method = "artillery"
                            THEN [g EXCEPT
                                    !.trebuchet_cooldown = 3,
                                    !.effect_dragon_killed_by_artillery_at = Some(loc)]
                            ELSE [g EXCEPT
                                    !.effect_dragon_killed_by_knight_at = Some(loc)]
                  IN  attack_resolved_trebuchet_kept(neutralize_target(g1, ti),
                                                     Tail(resolved), method)

\* the attack loop spending the first knight at the location of each
\* target he neutralizes, as the artillery attack spends the trebuchet
RECURSIVE attack_resolved_knight_spent(_, _, _)
attack_resolved_knight_spent(g, resolved, method) ==
    IF Len(resolved) = 0
    THEN Result(g, "Target(s) neutralized (" \o method \o ").")
    ELSE LET ti == Head(resolved)
             loc == g.targets[ti].location
             here == {k \in 1..Len(g.knights) : g.knights[k].location = loc}
         IN  IF method = "knight" /\ here = {}
             THEN Result(g, "Cannot attack with knight: no knight at " \o loc
                            \o ". Move a knight there first or use artillery.")
             ELSE IF method = "artillery" /\ Len(g.trebuchets) = 0
             THEN Result(g, "Cannot attack with artillery: no trebuchet on the map. Build one first (when cooldown allows).")
             ELSE LET g1 == IF method = "artillery"
                            THEN [g EXCEPT
                                    !.trebuchets = <<>>,
                                    !.trebuchet_cooldown = 3,
                                    !.effect_dragon_killed_by_artillery_at = Some(loc)]
                            ELSE [g EXCEPT
                                    !.knights = Pop(@, CHOOSE k \in here :
                                                         \A m \in here : k <= m),
                                    !.effect_dragon_killed_by_knight_at = Some(loc)]
                  IN  attack_resolved_knight_spent(neutralize_target(g1, ti),
                                                   Tail(resolved), method)

\* the loop of attack_target over resolved_targets (indices into targets)
RECURSIVE attack_resolved(_, _, _)
attack_resolved(g, resolved, method) ==
    IF Len(resolved) = 0
    THEN Result(g, "Target(s) neutralized (" \o method \o ").")
    ELSE LET ti == Head(resolved)
             loc == g.targets[ti].location
         IN  IF method = "knight" /\ ~knight_at_location(g, loc)
             THEN Result(g, "Cannot attack with knight: no knight at " \o loc
                            \o ". Move a knight there first or use artillery.")
             ELSE IF method = "artillery" /\ Len(g.trebuchets) = 0
             THEN Result(g, "Cannot attack with artillery: no trebuchet on the map. Build one first (when cooldown allows).")
             ELSE LET g1 == IF method = "artillery"
                            THEN [g EXCEPT
                                    !.trebuchets = <<>>,
                                    !.trebuchet_cooldown = 3,
                                    !.effect_dragon_killed_by_artillery_at = Some(loc)]
                            ELSE [g EXCEPT
                                    !.effect_dragon_killed_by_knight_at = Some(loc)]
                  IN  attack_resolved(neutralize_target(g1, ti),
                                      Tail(resolved), method)

\* attack_target asking for a knight at the spot before it neutralizes a
\* dragon spot that has no linked target
attack_target_spot_gated(g, target_id, attack_method) ==
    IF AttackMethod(attack_method) = None
    THEN Result(g, "Invalid attack_method: " \o attack_method
                       \o ". Use 'knight' or 'artillery'.")
    ELSE LET method == AttackMethod(attack_method)[1]
             ti == IndexOfId(g.targets, target_id)
             di == IF ti # 0 THEN 0
                   ELSE IndexOfId(g.dragon_spots, target_id)
             resolved_targets ==
                 IF ti # 0 THEN <<ti>>
                 ELSE IF di # 0
                 THEN LinkedIndicesFrom(g.targets, target_id, 1)
                 ELSE <<>>
         IN  IF di # 0 /\ Len(resolved_targets) = 0
             THEN IF method = "knight"
                     /\ ~knight_at_location(g, g.dragon_spots[di].location)
                  THEN Result(g, "Cannot attack with knight: no knight at "
                                 \o g.dragon_spots[di].location
                                 \o ". Move a knight there first or use artillery.")
                  ELSE Result([g EXCEPT !.dragon_spots[di].status = "neutralized"],
                              "Dragon spot " \o target_id \o " neutralized ("
                                  \o method \o ").")
             ELSE IF Len(resolved_targets) = 0
             THEN Result(g, "Target or dragon spot " \o target_id \o " not found.")
             ELSE attack_resolved(g, resolved_targets, method)

\* attack_target whose direct branch fires the trebuchet, as the attack on
\* a target does, when the method is artillery
attack_target_direct_fires(g, target_id, attack_method) ==
    IF AttackMethod(attack_method) = None
    THEN Result(g, "Invalid attack_method: " \o attack_method
                       \o ". Use 'knight' or 'artillery'.")
    ELSE LET method == AttackMethod(attack_method)[1]
             ti == IndexOfId(g.targets, target_id)
             di == IF ti # 0 THEN 0
                   ELSE IndexOfId(g.dragon_spots, target_id)
             resolved_targets ==
                 IF ti # 0 THEN <<ti>>
                 ELSE IF di # 0
                 THEN LinkedIndicesFrom(g.targets, target_id, 1)
                 ELSE <<>>
         IN  IF di # 0 /\ Len(resolved_targets) = 0
             THEN IF method = "artillery" /\ Len(g.trebuchets) = 0
                  THEN Result(g, "Cannot attack with artillery: no trebuchet on the map. Build one first (when cooldown allows).")
                  ELSE IF method = "artillery"
                  THEN Result([g EXCEPT
                                 !.dragon_spots[di].status = "neutralized",
                                 !.trebuchets = <<>>,
                                 !.trebuchet_cooldown = 3,
                                 !.effect_dragon_killed_by_artillery_at =
                                     Some(g.dragon_spots[di].location)],
                              "Dragon spot " \o target_id \o " neutralized ("
                                  \o method \o ").")
                  ELSE Result([g EXCEPT !.dragon_spots[di].status = "neutralized"],
                              "Dragon spot " \o target_id \o " neutralized ("
                                  \o method \o ").")
             ELSE IF Len(resolved_targets) = 0
             THEN Result(g, "Target or dragon spot " \o target_id \o " not found.")
             ELSE attack_resolved(g, resolved_targets, method)

\* attack_target that applies nothing when one of the resolved targets is
\* refused
attack_target_atomic(g, target_id, attack_method) ==
    IF AttackMethod(attack_method) = None
    THEN Result(g, "Invalid attack_method: " \o attack_method
                       \o ". Use 'knight' or 'artillery'.")
    ELSE LET method == AttackMethod(attack_method)[1]
             ti == IndexOfId(g.targets, target_id)
             di == IF ti # 0 THEN 0
                   ELSE IndexOfId(g.dragon_spots, target_id)
             resolved_targets ==
                 IF ti # 0 THEN <<ti>>
                 ELSE IF di # 0
                 THEN LinkedIndicesFrom(g.targets, target_id, 1)
                 ELSE <<>>
             r == attack_resolved(g, resolved_targets, method)
         IN  IF di # 0 /\ Len(resolved_targets) = 0
             THEN Result([g EXCEPT !.dragon_spots[di].status = "neutralized"],
                         "Dragon spot " \o target_id \o " neutralized ("
                             \o method \o ").")
             ELSE IF Len(resolved_targets) = 0
             THEN Result(g, "Target or dragon spot " \o target_id \o " not found.")
             ELSE IF startswith(r.msg, "Cannot ") THEN Result(g, r.msg)
             ELSE r

attack_target(g, target_id, attack_method) ==
    IF AttackMethod(attack_method) = None
    THEN Result(g, "Invalid attack_method: " \o attack_method
                       \o ". Use 'knight' or 'artillery'.")
    ELSE LET method == AttackMethod(attack_method)[1]
             ti == IndexOfId(g.targets, target_id)
             di == IF ti # 0 THEN 0
                   ELSE IndexOfId(g.dragon_spots, target_id)
             resolved_targets ==
                 IF ti # 0 THEN <<ti>>
                 ELSE IF di # 0
                 THEN LinkedIndicesFrom(g.targets, target_id, 1)
                 ELSE <<>>
         IN  IF di # 0 /\ Len(resolved_targets) = 0
             THEN Result([g EXCEPT !.dragon_spots[di].status = "neutralized"],
                         "Dragon spot " \o target_id \o " neutralized ("
                             \o method \o ").")
             ELSE IF Len(resolved_targets) = 0
             THEN Result(g, "Target or dragon spot " \o target_id \o " not found.")
             ELSE attack_resolved(g, resolved_targets, method)

delete_target(g, target_id) ==
    LET i == IndexOfId(g.targets, target_id)
    IN  IF i # 0
        THEN Result([g EXCEPT !.targets = Pop(@, i)],
                    "Removed target " \o target_id \o ".")
        ELSE Result(g, "Target " \o target_id \o " not found.")

(***************************************************************************)
(* Adversary turn.  The draws of random.random() and random.choice() are   *)
(* the record rnd: rnd.moves[i] is None when the i-th spot draws no move   *)
(* and the chosen location otherwise; rnd.spawn is None or the location    *)
(* of the spawned spot.                                                    *)
(***************************************************************************)
\* _other_locations that does not leave out the location itself
other_locations_with_own(g, location_name) ==
    {g.locations[i].name : i \in 1..Len(g.locations)}

other_locations(g, location_name) ==
    {g.locations[i].name : i \in 1..Len(g.locations)} \ {location_name}

\* no dragon spot is locked by its target
locked_dragon_ids_none(g) == {}

\* the locked set taken from the targets that are no longer active
locked_dragon_ids_of_neutralized(g) ==
    {g.targets[i].linked_dragon_spot_id[1] :
        i \in {j \in 1..Len(g.targets) :
                 /\ truthy(g.targets[j].linked_dragon_spot_id)
                 /\ g.targets[j].status # "active"}}

locked_dragon_ids(g) ==
    {g.targets[i].linked_dragon_spot_id[1] :
        i \in {j \in 1..Len(g.targets) :
                 /\ truthy(g.targets[j].linked_dragon_spot_id)
                 /\ g.targets[j].status = "active"}}

\* whether the movement loop reaches the random draw for the spot d
may_move(g, d) ==
    /\ d.status = "active"
    /\ d.id \notin locked_dragon_ids(g)
    /\ other_locations(g, d.location) # {}

spawn_locs(g) ==
    {g.locations[i].name : i \in 1..Len(g.locations)} \ {"Castle"}

\* the movement loop, from the i-th spot on
RECURSIVE move_dragons(_, _, _, _)
move_dragons(g, locked, moves, i) ==
    IF i > Len(g.dragon_spots) THEN g
    ELSE LET d == g.dragon_spots[i]
         IN  IF \/ d.status # "active"
                \/ d.id \in locked
                \/ moves[i] = None
                \/ other_locations(g, d.location) = {}
             THEN move_dragons(g, locked, moves, i + 1)
             ELSE LET new_loc == moves[i][1]
                      r == resolve_location(g, new_loc)
                      g1 == [r.g EXCEPT !.dragon_spots[i].location = new_loc,
                                        !.dragon_spots[i].coordinates = r.xy]
                  IN  move_dragons(log(g1, "Dragon moved to " \o new_loc \o "."),
                                   locked, moves, i + 1)

\* list.remove(k), from the i-th element on: drops the first element equal
\* to k
RECURSIVE RemoveFrom(_, _, _)
RemoveFrom(s, k, i) ==
    IF i > Len(s) THEN s
    ELSE IF s[i] = k THEN Pop(s, i)
    ELSE RemoveFrom(s, k, i + 1)

Remove(s, k) == RemoveFrom(s, k, 1)

\* the inner combat loop stopping at the first knight it kills
RECURSIVE kill_knights_first_only(_, _, _)
kill_knights_first_only(g, loc, ks) ==
    IF Len(ks) = 0 THEN g
    ELSE LET k == Head(ks)
         IN  IF k.location = loc /\ ~k.grace_turn
             THEN log([g EXCEPT !.knights = Remove(@, k),
                                !.effect_knight_killed_at = Some(loc)],
                      "Knight killed at " \o loc \o "!")
             ELSE kill_knights_first_only(g, loc, Tail(ks))

\* the inner combat loop removing the knights without stamping the effect
RECURSIVE kill_knights_unstamped(_, _, _)
kill_knights_unstamped(g, loc, ks) ==
    IF Len(ks) = 0 THEN g
    ELSE LET k == Head(ks)
         IN  IF k.location = loc /\ ~k.grace_turn
             THEN kill_knights_unstamped(
                      log([g EXCEPT !.knights = Remove(@, k)],
                          "Knight killed at " \o loc \o "!"),
                      loc, Tail(ks))
             ELSE kill_knights_unstamped(g, loc, Tail(ks))

\* the inner combat loop at loc over ks, the copy of the knights
RECURSIVE kill_knights(_, _, _)
kill_knights(g, loc, ks) ==
    IF Len(ks) = 0 THEN g
    ELSE LET k == Head(ks)
         IN  IF k.location = loc /\ ~k.grace_turn
             THEN kill_knights(
                      log([g EXCEPT !.knights = Remove(@, k),
                                    !.effect_knight_killed_at = Some(loc)],
                          "Knight killed at " \o loc \o "!"),
                      loc, Tail(ks))
             ELSE kill_knights(g, loc, Tail(ks))

\* the combat loop, from the i-th spot on
RECURSIVE combat(_, _)
combat(g, i) ==
    IF i > Len(g.dragon_spots) THEN g
    ELSE IF g.dragon_spots[i].status # "active" THEN combat(g, i + 1)
    ELSE combat(kill_knights(g, g.dragon_spots[i].location, g.knights), i + 1)

\* the grace turns are not cleared
clear_grace_skipped(g) == g

clear_grace(g) ==
    [g EXCEPT !.knights = [i \in 1..Len(g.knights) |->
                              [g.knights[i] EXCEPT !.grace_turn = FALSE]]]

spawn(g, id, choice) ==
    IF spawn_locs(g) = {} \/ choice = None THEN g
    ELSE LET loc == choice[1]
             r == resolve_location(g, loc)
             spot == [make_dragon_spot(id, loc, "fire") EXCEPT !.coordinates = r.xy]
         IN  log([r.g EXCEPT !.dragon_spots = Append(@, spot)],
                 "Dragon spawned at " \o loc \o ".")

\* the cooldown step counting up while the cooldown runs
cooldowns_counting_up(g) ==
    IF g.trebuchet_cooldown > 0
    THEN [g EXCEPT !.trebuchet_cooldown = @ + 1]
    ELSE g

\* the cooldown step without its floor at 0
cooldowns_unfloored(g) == [g EXCEPT !.trebuchet_cooldown = @ - 1]

cooldowns(g) ==
    IF g.trebuchet_cooldown > 0
    THEN [g EXCEPT !.trebuchet_cooldown = @ - 1]
    ELSE g

\* process_enemy_turn with the combat pass before the movement pass
process_enemy_turn_combat_first(g, id, rnd) ==
    IF ~g.game_active THEN g
    ELSE LET g1 == [g EXCEPT !.turn_count = @ + 1]
             g2 == log(g1, "--- Turn " \o ToString(g1.turn_count) \o " ---")
             g3 == combat(g2, 1)
             g4 == move_dragons(g3, locked_dragon_ids(g3), rnd.moves, 1)
             g5 == clear_grace(g4)
             g6 == spawn(g5, id, rnd.spawn)
         IN  cooldowns(g6)

\* process_enemy_turn that spawns before the combat pass
process_enemy_turn_spawn_first(g, id, rnd) ==
    IF ~g.game_active THEN g
    ELSE LET g1 == [g EXCEPT !.turn_count = @ + 1]
             g2 == log(g1, "--- Turn " \o ToString(g1.turn_count) \o " ---")
             g3 == move_dragons(g2, locked_dragon_ids(g2), rnd.moves, 1)
             g4 == spawn(g3, id, rnd.spawn)
             g5 == combat(g4, 1)
             g6 == clear_grace(g5)
         IN  cooldowns(g6)

\* process_enemy_turn that does not count the turn
process_enemy_turn_uncounted(g, id, rnd) ==
    IF ~g.game_active THEN g
    ELSE LET g2 == log(g, "--- Turn " \o ToString(g.turn_count) \o " ---")
             g3 == move_dragons(g2, locked_dragon_ids(g2), rnd.moves, 1)
             g4 == combat(g3, 1)
             g5 == clear_grace(g4)
             g6 == spawn(g5, id, rnd.spawn)
         IN  cooldowns(g6)

\* id is the id uuid4 gives a spawned spot
process_enemy_turn(g, id, rnd) ==
    IF ~g.game_active THEN g
    ELSE LET g1 == [g EXCEPT !.turn_count = @ + 1]
             g2 == log(g1, "--- Turn " \o ToString(g1.turn_count) \o " ---")
             g3 == move_dragons(g2, locked_dragon_ids(g2), rnd.moves, 1)
             g4 == combat(g3, 1)
             g5 == clear_grace(g4)
             g6 == spawn(g5, id, rnd.spawn)
         IN  cooldowns(g6)

\* the draws one adversary turn can make in g; can_spawn caps the ids
RandomDraws(g, can_spawn) ==
    [moves : {m \in [1..Len(g.dragon_spots) ->
                        {None} \cup {Some(n) : n \in
                            {g.locations[i].name : i \in 1..Len(g.locations)}}] :
                \A i \in 1..Len(g.dragon_spots) :
                    m[i] # None =>
                        /\ may_move(g, g.dragon_spots[i])
                        /\ m[i][1] \in other_locations(g, g.dragon_spots[i].location)},
     spawn : {None} \cup (IF can_spawn THEN {Some(n) : n \in spawn_locs(g)} ELSE {})]

(***************************************************************************)
(* The boundaries of backend/main.py: one cycle is the handler call, the   *)
(* log of the player's action and the adversary turn.                      *)
(***************************************************************************)
\* _after_player_action
after_player_action(g, id, rnd) ==
    IF g.game_active THEN process_enemy_turn(g, id, rnd) ELSE g

\* the draws of the cycle that follows an accepted action in g
NoDraw == [moves |-> <<>>, spawn |-> None]

Draws(g, can_spawn) ==
    IF g.game_active THEN RandomDraws(g, can_spawn) ELSE {NoDraw}

\* request and response are the call of a caller who waits for the answer
\* before the next call is made; none is being served
NoRequest == [via |-> "none", name |-> "", arguments |-> <<>>]
NoResponse == [kind |-> "none"]

Idle == request = NoRequest /\ response = NoResponse

\* the callers whose calls the server runs on worker threads of their own
Callers == {"a", "b"}

\* a worker thread that serves no call
Ready == [pc |-> "ready"]

\* the rest of a call once the handler returned r: accepted is the
\* boundary's test on r.msg, new_ids the ids the handler took from uuid4
Complete(req, r, accepted, new_ids) ==
    /\ Idle
    /\ request' = req
    /\ response' = [kind |-> "message", message |-> r.msg]
    /\ IF accepted
       THEN \E rnd \in Draws(r.g, uuid_count + new_ids < MaxIds) :
              /\ game' = after_player_action(
                             log_player_action(r.g, r.msg),
                             MakeId("dragon", uuid_count + new_ids + 1), rnd)
              /\ uuid_count' = uuid_count + new_ids
                                 + (IF rnd.spawn # None THEN 1 ELSE 0)
       ELSE /\ game' = r.g
            /\ uuid_count' = uuid_count + new_ids
    /\ UNCHANGED threads

NextId(kind) == MakeId(kind, uuid_count + 1)

\* POST /move_knight
MoveKnight(to_location_name, knight_name) ==
    LET r == move_knight(game, to_location_name, knight_name)
    IN  Complete([via |-> "rest", name |-> "move_knight",
                  arguments |-> [to_location_name |-> to_location_name,
                                 knight_name |-> knight_name]],
                 r,
                 r.msg # "" /\ ~contains(r.msg, "not found") /\ ~contains(r.msg, "No "),
                 0)

\* POST /add_knight
AddKnight(name, location_name) ==
    /\ uuid_count < MaxIds
    /\ Complete([via |-> "rest", name |-> "add_knight",
                 arguments |-> [name |-> name, location_name |-> location_name]],
                add_knight(game, NextId("knight"), name, location_name),
                TRUE, 1)

\* POST /delete_knight
DeleteKnight(id) ==
    LET r == delete_knight(game, id)
    IN  Complete([via |-> "rest", name |-> "delete_knight",
                  arguments |-> [knight_id |-> id]],
                 r, r.msg # "" /\ ~contains(r.msg, "not found"), 0)

\* POST /create_dragon_spot
CreateDragonSpot(location_name, dragon_type) ==
    /\ uuid_count < MaxIds
    /\ Complete([via |-> "rest", name |-> "create_dragon_spot",
                 arguments |-> [location_name |-> location_name,
                                dragon_type |-> dragon_type]],
                create_dragon_spot(game, NextId("dragon"), location_name, dragon_type),
                TRUE, 1)

\* POST /create_target
CreateTarget(location_name, linked_dragon_spot_id) ==
    /\ uuid_count < MaxIds
    /\ Complete([via |-> "rest", name |-> "create_target",
                 arguments |-> [location_name |-> location_name,
                                linked_dragon_spot_id |-> linked_dragon_spot_id]],
                create_target(game, NextId("target"), location_name,
                              linked_dragon_spot_id),
                TRUE, 1)

\* POST /create_trebuchet
CreateTrebuchet(location_name) ==
    LET r == create_trebuchet(game, NextId("trebuchet"), location_name)
        built == Len(r.g.trebuchets) > Len(game.trebuchets)
    IN  /\ Idle
        /\ built => uuid_count < MaxIds
        /\ Complete([via |-> "rest", name |-> "create_trebuchet",
                     arguments |-> [location_name |-> location_name]],
                    r, r.msg # "" /\ ~contains(r.msg, "Cannot "),
                    IF built THEN 1 ELSE 0)

\* POST /attack_target; AttackTargetBody admits the two method names only
AttackTarget(target_id, attack_method) ==
    /\ attack_method \in {"knight", "artillery"}
    /\ LET r == attack_target(game, target_id, attack_method)
       IN  Complete([via |-> "rest", name |-> "attack_target",
                     arguments |-> [target_id |-> target_id,
                                    attack_method |-> attack_method]],
                    r,
                    /\ r.msg # ""
                    /\ ~contains(r.msg, "not found")
                    /\ ~contains(r.msg, "Cannot "),
                    0)

\* POST /delete_target
DeleteTarget(id) ==
    LET r == delete_target(game, id)
    IN  Complete([via |-> "rest", name |-> "delete_target",
                  arguments |-> [target_id |-> id]],
                 r, r.msg # "" /\ ~contains(r.msg, "not found"), 0)

\* POST /delete_dragon_spot
DeleteDragonSpot(id) ==
    LET r == delete_dragon_spot(game, id)
    IN  Complete([via |-> "rest", name |-> "delete_dragon_spot",
                  arguments |-> [dragon_spot_id |-> id]],
                 r, r.msg # "" /\ ~contains(r.msg, "not found"), 0)

\* POST /set_game_active
SetGameActive(active) ==
    /\ Idle
    /\ request' = [via |-> "rest", name |-> "set_game_active",
                   arguments |-> [game_active |-> active]]
    /\ game' = set_game_active(game, active)
    /\ response' = [kind |-> "message",
                    message |-> "Game " \o (IF active THEN "started" ELSE "paused")
                                    \o "."]
    /\ UNCHANGED <<uuid_count, threads>>

\* _coords of a knight, dragon spot or trebuchet: its coordinates key is
\* always there and a tuple is true in Python
coords(e) == e.coordinates

\* _coords of a target, whose coordinates key may be missing
coords_of_target(t) ==
    IF t.coordinates # None THEN t.coordinates[1] ELSE LOCATIONS_get(t.location)

\* _placement_offset: two bytes of the md5 of the id, scaled; the model
\* keeps the id the offset is computed from
placement_offset(entity_id) == <<[dx_of |-> entity_id], [dy_of |-> entity_id]>>

\* x + dx and y + dy, unevaluated
plus(v, d) == [base |-> v, noise |-> d]

\* dict(e) without its coordinates key and with the keys x and y
with_position(e, x, y) ==
    [k \in DOMAIN e \ {"coordinates"} |-> e[k]] @@ [x |-> x, y |-> y]

\* with_xy(entities, add_noise=True)
with_xy(entities) ==
    [i \in 1..Len(entities) |->
        LET e == entities[i]
            d == placement_offset(e.id)
        IN  with_position(e, plus(coords(e)[1], d[1]), plus(coords(e)[2], d[2]))]

\* the loop of _state_for_api over the targets: a target whose link names
\* a dragon spot of the snapshot takes the display position of that spot,
\* any other target its own coordinates and offset
targets_for_api(targets, dragon_spots) ==
    [i \in 1..Len(targets) |->
        LET t == targets[i]
            linked_id == t.linked_dragon_spot_id
            di == IF truthy(linked_id)
                  THEN IndexOfId(dragon_spots, linked_id[1])
                  ELSE 0
            d == placement_offset(t.id)
        IN  IF di # 0
            THEN with_position(t, dragon_spots[di].x, dragon_spots[di].y)
            ELSE with_position(t, plus(coords_of_target(t)[1], d[1]),
                                  plus(coords_of_target(t)[2], d[2]))]

\* what _state_for_api returns for the world g; it reads the three
\* effect fields and has not cleared them yet
state_for_api(g) ==
    LET dragon_spots == with_xy(g.dragon_spots)
    IN  [kind |-> "state",
         grid |-> [width |-> 55, height |-> 30],
         locations |-> [i \in 1..Len(g.locations) |->
                           [name |-> g.locations[i].name,
                            x |-> LOCATIONS_get(g.locations[i].name)[1],
                            y |-> LOCATIONS_get(g.locations[i].name)[2]]],
         knights |-> with_xy(g.knights),
         dragon_spots |-> dragon_spots,
         targets |-> targets_for_api(g.targets, dragon_spots),
         trebuchets |-> with_xy(g.trebuchets),
         game_active |-> g.game_active,
         turn_count |-> g.turn_count,
         trebuchet_cooldown |-> g.trebuchet_cooldown,
         trebuchet_available |-> trebuchet_available(g),
         turn_logs |-> g.turn_logs,
         effect_knight_killed_at |-> g.effect_knight_killed_at,
         effect_dragon_killed_by_knight_at |->
             g.effect_dragon_killed_by_knight_at,
         effect_dragon_killed_by_artillery_at |->
             g.effect_dragon_killed_by_artillery_at]

\* the last statements of _state_for_api before it returns
clear_effects(g) ==
    [g EXCEPT !.effect_knight_killed_at = None,
              !.effect_dragon_killed_by_knight_at = None,
              !.effect_dragon_killed_by_artillery_at = None]

\* GET /state
GetState ==
    /\ Idle
    /\ request' = [via |-> "rest", name |-> "state", arguments |-> <<>>]
    /\ response' = state_for_api(game)
    /\ game' = clear_effects(game)
    /\ UNCHANGED <<uuid_count, threads>>

\* the test of _execute_tool on the result of a tool
tool_accepts(result) ==
    /\ result # ""
    /\ ~startswith(result, "Error:")
    /\ ~startswith(result, "No ")
    /\ ~contains(result, "not found")
    /\ ~contains(result, "Cannot ")

\* the handler _execute_tool runs for a tool name; arguments is the dict
\* of the call with every key of the tool present
tool_result(g, name, arguments) ==
    CASE name = "move_knight" ->
           move_knight(g, arguments.to_location_name, arguments.knight_name)
      [] name = "add_knight" ->
           add_knight(g, NextId("knight"), arguments.name, arguments.location_name)
      [] name = "delete_knight" ->
           delete_knight(g, arguments.knight_id)
      [] name = "create_dragon_spot" ->
           create_dragon_spot(g, NextId("dragon"), arguments.location_name,
                              arguments.dragon_type)
      [] name = "create_target" ->
           create_target(g, NextId("target"), arguments.location_name,
                         arguments.linked_dragon_spot_id)
      [] name = "create_trebuchet" ->
           create_trebuchet(g, NextId("trebuchet"), arguments.location_name)
      [] name = "attack_target" ->
           attack_target(g, arguments.target_id, arguments.attack_method)
      [] name = "delete_target" ->
           delete_target(g, arguments.target_id)
      [] name = "delete_dragon_spot" ->
           delete_dragon_spot(g, arguments.dragon_spot_id)

ToolNames ==
    {"move_knight", "add_knight", "delete_knight", "create_dragon_spot",
     "create_target", "create_trebuchet", "attack_target", "delete_target",
     "delete_dragon_spot"}

EntityCount(g) ==
    Len(g.knights) + Len(g.dragon_spots) + Len(g.targets) + Len(g.trebuchets)

\* _execute_tool, as /chat calls it for each tool call of the model
ExecuteTool(name, arguments) ==
    LET req == [via |-> "tool", name |-> name, arguments |-> arguments]
    IN  IF name \notin ToolNames
        THEN /\ Idle
             /\ request' = req
             /\ response' = [kind |-> "message", message |-> "Unknown tool: " \o name]
             /\ UNCHANGED <<game, uuid_count, threads>>
        ELSE LET r == tool_result(game, name, arguments)
                 new_ids == IF EntityCount(r.g) > EntityCount(game) THEN 1 ELSE 0
             IN  /\ Idle
                 /\ new_ids = 1 => uuid_count < MaxIds
                 /\ Complete(req, r, tool_accepts(r.msg), new_ids)

\* the response reaches the caller; the server is ready for the next call
Deliver ==
    /\ ~Idle
    /\ request' = NoRequest
    /\ response' = NoResponse
    /\ UNCHANGED <<game, uuid_count, threads>>

(***************************************************************************)
(* The program after backend/main.py is loaded: an empty map with the      *)
(* seeded knight; no call was made yet.                                    *)
(***************************************************************************)
Init ==
    /\ game = add_knight(GameMap, MakeId("knight", 1), "Sir Roland", "Castle").g
    /\ uuid_count = 1
    /\ request = NoRequest
    /\ response = NoResponse
    /\ threads = [c \in Callers |-> Ready]

(***************************************************************************)
(* Inputs of the calls.                                                    *)
(***************************************************************************)
\* a known name, a variant of a known name, an unknown name
LocationInputs == {"Castle", " north ridge", "Swamp"}

KnightNameInputs == {None, Some("sir roland"), Some("Bob")}

\* the ids of one kind a caller can have seen, whether still in the store,
\* deleted or never of that kind
IdInputs(kind) == {MakeId(kind, n) : n \in 1..uuid_count}

MethodInputs == {"knight", "artillery"}

\* what the language model may pass as attack_method
ToolMethodInputs == {"knight", "Artillery", "sword"}

(***************************************************************************)
(* Spec: every REST endpoint and _execute_tool, from the loaded program,   *)
(* until the log holds MaxLog lines.                                       *)
(***************************************************************************)
Open == Idle /\ Len(game.turn_logs) < MaxLog

RestMoveKnight ==
    \E to \in LocationInputs, kn \in KnightNameInputs : Open /\ MoveKnight(to, kn)

RestAddKnight ==
    \E loc \in LocationInputs : Open /\ AddKnight("Knight", loc)

RestDeleteKnight ==
    \E id \in IdInputs("knight") : Open /\ DeleteKnight(id)

RestCreateDragonSpot ==
    \E loc \in LocationInputs : Open /\ CreateDragonSpot(loc, "ice")

RestDeleteDragonSpot ==
    \E id \in IdInputs("dragon") : Open /\ DeleteDragonSpot(id)

RestCreateTarget ==
    \/ \E loc \in LocationInputs : Open /\ CreateTarget(Some(loc), None)
    \/ \E id \in IdInputs("dragon") : Open /\ CreateTarget(None, Some(id))

RestDeleteTarget ==
    \E id \in IdInputs("target") : Open /\ DeleteTarget(id)

RestCreateTrebuchet ==
    \E loc \in LocationInputs : Open /\ CreateTrebuchet(loc)

RestAttackTarget ==
    \E id \in IdInputs("target") \cup IdInputs("dragon"), m \in MethodInputs :
        Open /\ AttackTarget(id, m)

RestSetGameActive ==
    \E active \in BOOLEAN : Open /\ SetGameActive(active)

RestGetState == Open /\ GetState

ToolAttackTarget ==
    \E id \in IdInputs("target") \cup IdInputs("dragon"), m \in ToolMethodInputs :
        Open /\ ExecuteTool("attack_target", [target_id |-> id, attack_method |-> m])

ToolMoveKnight ==
    \E to \in LocationInputs, kn \in KnightNameInputs :
        Open /\ ExecuteTool("move_knight",
                            [to_location_name |-> to, knight_name |-> kn])

ToolCreateTrebuchet ==
    \E loc \in LocationInputs :
        Open /\ ExecuteTool("create_trebuchet", [location_name |-> loc])

ToolUnknown == Open /\ ExecuteTool("fly", <<>>)

Next ==
    \/ RestMoveKnight
    \/ RestAddKnight
    \/ RestDeleteKnight
    \/ RestCreateDragonSpot
    \/ RestDeleteDragonSpot
    \/ RestCreateTarget
    \/ RestDeleteTarget
    \/ RestCreateTrebuchet
    \/ RestAttackTarget
    \/ RestSetGameActive
    \/ RestGetState
    \/ ToolAttackTarget
    \/ ToolMoveKnight
    \/ ToolCreateTrebuchet
    \/ ToolUnknown
    \/ Deliver

Spec == Init /\ [][Next]_vars

(***************************************************************************)
(* SpecCombat: knights and dragon spots under the adversary turn.  The     *)
(* calls are those that place and move knights and spots; the run goes on  *)
(* until the log holds MaxLogCombat lines.                                 *)
(***************************************************************************)
MaxLogCombat == 5

OpenCombat == Idle /\ Len(game.turn_logs) < MaxLogCombat

CombatLocations == {"North Ridge", "Castle"}

CombatSetGameActive == OpenCombat /\ SetGameActive(TRUE)

CombatMoveKnight ==
    \E to \in CombatLocations, kn \in {None, Some("Knight")} :
        OpenCombat /\ MoveKnight(to, kn)

CombatAddKnight == OpenCombat /\ AddKnight("Knight", "North Ridge")

CombatCreateDragonSpot == OpenCombat /\ CreateDragonSpot("North Ridge", "ice")

CombatGetState == OpenCombat /\ GetState

NextCombat ==
    \/ CombatSetGameActive
    \/ CombatMoveKnight
    \/ CombatAddKnight
    \/ CombatCreateDragonSpot
    \/ CombatGetState
    \/ Deliver

SpecCombat == Init /\ [][NextCombat]_vars

(***************************************************************************)
(* SpecSiege: dragon spots, targets, the trebuchet and attacks.  The       *)
(* seeded knight stays at Castle, where spots and free targets are         *)
(* created; the adversary turn moves the spots.  The run goes on until     *)
(* the log holds MaxLogSiege lines.                                        *)
(***************************************************************************)
MaxLogSiege == 5

OpenSiege == Idle /\ Len(game.turn_logs) < MaxLogSiege

SiegeSetGameActive == OpenSiege /\ SetGameActive(TRUE)

SiegeCreateDragonSpot == OpenSiege /\ CreateDragonSpot("Castle", "ice")

SiegeCreateTarget ==
    \/ OpenSiege /\ CreateTarget(Some("Castle"), None)
    \/ \E id \in IdInputs("dragon") : OpenSiege /\ CreateTarget(None, Some(id))

SiegeCreateTrebuchet == OpenSiege /\ CreateTrebuchet("castle ")

SiegeAttackTarget ==
    \E id \in IdInputs("target") \cup IdInputs("dragon"), m \in MethodInputs :
        OpenSiege /\ AttackTarget(id, m)

SiegeDeleteDragonSpot ==
    \E id \in IdInputs("dragon") : OpenSiege /\ DeleteDragonSpot(id)

NextSiege ==
    \/ SiegeSetGameActive
    \/ SiegeCreateDragonSpot
    \/ SiegeCreateTarget
    \/ SiegeCreateTrebuchet
    \/ SiegeAttackTarget
    \/ SiegeDeleteDragonSpot
    \/ Deliver

SpecSiege == Init /\ [][NextSiege]_vars

(***************************************************************************)
(* SpecLog: a long session.  A locked dragon spot is placed at North       *)
(* Ridge, knights are added at Castle until uuid4 has handed out MaxIds    *)
(* ids, simulation mode is switched on and the first knight is moved to    *)
(* Castle turn after turn; in the last three turns any of the two knights  *)
(* is moved to any of the two places, so that knights die at the spot.     *)
(* The run goes on until MaxTurnsLog turns were played.                    *)
(***************************************************************************)
MaxTurnsLog == 51

OpenLog == Idle /\ game.turn_count < MaxTurnsLog

LateLog == game.turn_count >= MaxTurnsLog - 3

LogCreateDragonSpot ==
    /\ OpenLog
    /\ Len(game.dragon_spots) = 0
    /\ CreateDragonSpot("North Ridge", "ice")

LogCreateTarget ==
    /\ OpenLog
    /\ Len(game.dragon_spots) = 1
    /\ Len(game.targets) = 0
    /\ CreateTarget(None, Some(game.dragon_spots[1].id))

LogAddKnight ==
    /\ OpenLog
    /\ Len(game.targets) = 1
    /\ ~game.game_active
    /\ AddKnight("Knight", "Castle")

LogSetGameActive ==
    /\ OpenLog
    /\ Len(game.targets) = 1
    /\ uuid_count = MaxIds
    /\ ~game.game_active
    /\ SetGameActive(TRUE)

LogMoveKnight ==
    /\ OpenLog
    /\ game.game_active
    /\ ~LateLog
    /\ MoveKnight("Castle", None)

LogMoveKnightLate ==
    \E to \in CombatLocations, kn \in {None, Some("Knight")} :
        /\ OpenLog
        /\ game.game_active
        /\ LateLog
        /\ MoveKnight(to, kn)

NextLog ==
    \/ LogCreateDragonSpot
    \/ LogCreateTarget
    \/ LogAddKnight
    \/ LogSetGameActive
    \/ LogMoveKnight
    \/ LogMoveKnightLate
    \/ Deliver

SpecLog == Init /\ [][NextLog]_vars

(***************************************************************************)
(* SpecConcurrent: two callers at once.  The endpoints of backend/main.py  *)
(* are plain functions, which the server runs on worker threads, and       *)
(* nothing in the file locks the world: a thread can be suspended between  *)
(* any two statements of its endpoint.  One step is one statement that     *)
(* calls into the world (the statements of _state_for_api before its       *)
(* clearing of the effects are one step); the return of an endpoint is     *)
(* part of its last such step.  A call that can write to the log is begun  *)
(* only while the log is shorter than MaxLogConcurrent.                    *)
(***************************************************************************)
MaxLogConcurrent == 2

OpenConcurrent(c) ==
    threads[c].pc = "ready" /\ Len(game.turn_logs) < MaxLogConcurrent

\* the locals of a thread that has run the handler of its endpoint
Handled(name, msg, accepted) ==
    IF accepted THEN [pc |-> "handled", name |-> name, message |-> msg]
    ELSE Ready

\* POST /move_knight, its first statement and the test on msg
ThreadMoveKnight(c, to_location_name, knight_name) ==
    /\ OpenConcurrent(c)
    /\ LET r == move_knight(game, to_location_name, knight_name)
       IN  /\ game' = r.g
           /\ threads' = [threads EXCEPT ![c] =
                 Handled("move_knight", r.msg,
                         /\ r.msg # ""
                         /\ ~contains(r.msg, "not found")
                         /\ ~contains(r.msg, "No "))]
    /\ UNCHANGED <<uuid_count, request, response>>

\* POST /create_dragon_spot, its first statement
ThreadCreateDragonSpot(c, location_name, dragon_type) ==
    /\ OpenConcurrent(c)
    /\ uuid_count < MaxIds
    /\ LET r == create_dragon_spot(game, NextId("dragon"), location_name,
                                   dragon_type)
       IN  /\ game' = r.g
           /\ threads' = [threads EXCEPT ![c] =
                 Handled("create_dragon_spot", r.msg, TRUE)]
    /\ uuid_count' = uuid_count + 1
    /\ UNCHANGED <<request, response>>

\* game.log_player_action(msg)
ThreadLogPlayerAction(c) ==
    /\ threads[c].pc = "handled"
    /\ game' = log_player_action(game, threads[c].message)
    /\ threads' = [threads EXCEPT ![c].pc = "logged"]
    /\ UNCHANGED <<uuid_count, request, response>>

\* _after_player_action()
ThreadAfterPlayerAction(c) ==
    /\ threads[c].pc = "logged"
    /\ \E rnd \in Draws(game, uuid_count < MaxIds) :
          /\ game' = after_player_action(game, NextId("dragon"), rnd)
          /\ uuid_count' = uuid_count + (IF rnd.spawn # None THEN 1 ELSE 0)
    /\ threads' = [threads EXCEPT ![c] = Ready]
    /\ UNCHANGED <<request, response>>

\* POST /set_game_active
ThreadSetGameActive(c, active) ==
    /\ OpenConcurrent(c)
    /\ game' = set_game_active(game, active)
    /\ UNCHANGED <<uuid_count, request, response, threads>>

\* GET /state: _state_for_api up to its reading of the effect fields
ThreadReadState(c) ==
    /\ threads[c].pc = "ready"
    /\ threads' = [threads EXCEPT ![c] =
          [pc |-> "read", name |-> "state", state |-> state_for_api(game)]]
    /\ UNCHANGED <<game, uuid_count, request, response>>

\* GET /state: _state_for_api clears the effect fields
ThreadClearEffects(c) ==
    /\ threads[c].pc = "read"
    /\ game' = clear_effects(game)
    /\ threads' = [threads EXCEPT ![c] = Ready]
    /\ UNCHANGED <<uuid_count, request, response>>

\* POST /reset: game = GameMap()
ThreadResetGameMap(c) ==
    /\ OpenConcurrent(c)
    /\ uuid_count < MaxIds
    /\ game' = GameMap
    /\ threads' = [threads EXCEPT ![c] =
          [pc |-> "constructed", name |-> "reset"]]
    /\ UNCHANGED <<uuid_count, request, response>>

\* POST /reset: game.add_knight("Sir Roland", "Castle")
ThreadResetAddKnight(c) ==
    /\ threads[c].pc = "constructed"
    /\ game' = add_knight(game, NextId("knight"), "Sir Roland", "Castle").g
    /\ uuid_count' = uuid_count + 1
    /\ threads' = [threads EXCEPT ![c] = Ready]
    /\ UNCHANGED <<request, response>>

NextConcurrent ==
    \/ \E c \in Callers, to \in CombatLocations : ThreadMoveKnight(c, to, None)
    \/ \E c \in Callers : ThreadCreateDragonSpot(c, "Castle", "ice")
    \/ \E c \in Callers : ThreadSetGameActive(c, TRUE)
    \/ \E c \in Callers : ThreadLogPlayerAction(c)
    \/ \E c \in Callers : ThreadAfterPlayerAction(c)
    \/ \E c \in Callers : ThreadReadState(c)
    \/ \E c \in Callers : ThreadClearEffects(c)
    \/ \E c \in Callers : ThreadResetGameMap(c)
    \/ \E c \in Callers : ThreadResetAddKnight(c)

SpecConcurrent == Init /\ [][NextConcurrent]_vars

(***************************************************************************)
(* SpecStale: targets that outlive their dragon spot.  Spots are created   *)
(* at Castle, where the seeded knight stays, targets are linked to them,   *)
(* spots and targets are deleted, targets are attacked and the state is    *)
(* read.  The run goes on until the log holds MaxLogStale lines.           *)
(***************************************************************************)
MaxLogStale == 5

OpenStale == Idle /\ Len(game.turn_logs) < MaxLogStale

NextStale ==
    \/ OpenStale /\ SetGameActive(TRUE)
    \/ OpenStale /\ CreateDragonSpot("Castle", "ice")
    \/ \E id \in IdInputs("dragon") : OpenStale /\ CreateTarget(None, Some(id))
    \/ \E id \in IdInputs("dragon") : OpenStale /\ DeleteDragonSpot(id)
    \/ \E id \in IdInputs("target") : OpenStale /\ DeleteTarget(id)
    \/ OpenStale /\ CreateTrebuchet("Castle")
    \/ \E id \in IdInputs("target"), m \in MethodInputs :
          OpenStale /\ AttackTarget(id, m)
    \/ OpenStale /\ GetState
    \/ Deliver

SpecStale == Init /\ [][NextStale]_vars

(***************************************************************************)
(* SpecLookup: the two lookups of the location registry, applied to the    *)
(* registry of the session in every order.                                 *)
(***************************************************************************)
\* a known name and two unknown names, each with variants in casing and in
\* surrounding blanks
LookupInputs ==
    {"Castle", " castle ", "CASTLE", "Swamp", " swamp", "SWAMP ", "Bog", "bog"}

\* a call of _resolve_location
ResolveLocation(location_name) ==
    LET r == resolve_location(game, location_name)
    IN  /\ Idle
        /\ request' = [via |-> "method", name |-> "_resolve_location",
                       arguments |-> [location_name |-> location_name]]
        /\ response' = [kind |-> "coordinates", xy |-> r.xy]
        /\ game' = r.g
        /\ UNCHANGED <<uuid_count, threads>>

\* a call of _canonical_location_name
CanonicalLocationName(location_name) ==
    /\ Idle
    /\ request' = [via |-> "method", name |-> "_canonical_location_name",
                   arguments |-> [location_name |-> location_name]]
    /\ response' = [kind |-> "name",
                    name |-> canonical_location_name(game, location_name)]
    /\ UNCHANGED <<game, uuid_count, threads>>

NextLookup ==
    \/ \E location_name \in LookupInputs : ResolveLocation(location_name)
    \/ \E location_name \in LookupInputs : CanonicalLocationName(location_name)
    \/ Deliver

SpecLookup == Init /\ [][NextLookup]_vars

(***************************************************************************)
(* SpecCooldown: the trebuchet through its cooldown.  A trebuchet and one  *)
(* free target are built at Castle and the trebuchet is fired; the         *)
(* simulation is started once the target stands and paused while the       *)
(* cooldown runs; while it runs the seeded knight is moved to Castle,      *)
(* where he stands, to let turns pass.  The run goes on until the log      *)
(* holds MaxLogCooldown lines.                                             *)
(***************************************************************************)
MaxLogCooldown == 10

OpenCooldown == Idle /\ Len(game.turn_logs) < MaxLogCooldown

NextCooldown ==
    \/ /\ OpenCooldown
       /\ ~game.game_active
       /\ Len(game.targets) > 0
       /\ SetGameActive(TRUE)
    \/ /\ OpenCooldown
       /\ game.game_active
       /\ game.trebuchet_cooldown > 0
       /\ SetGameActive(FALSE)
    \/ OpenCooldown /\ CreateTrebuchet("Castle")
    \/ OpenCooldown /\ Len(game.targets) = 0 /\ CreateTarget(Some("Castle"), None)
    \/ \E id \in IdInputs("target") : OpenCooldown /\ AttackTarget(id, "artillery")
    \/ OpenCooldown /\ game.trebuchet_cooldown > 0 /\ MoveKnight("Castle", None)
    \/ Deliver

SpecCooldown == Init /\ [][NextCooldown]_vars

(***************************************************************************)
(* SpecPartial: a dragon spot with several linked targets under attack.    *)
(* Spots and a trebuchet are built at Castle, targets are linked to the    *)
(* spots, the seeded knight is moved and the spots are attacked.           *)
(* The calls take up to MaxIdsPartial ids and the run goes on until the    *)
(* log holds MaxLogPartial lines.                                          *)
(***************************************************************************)
MaxIdsPartial == 5

MaxLogPartial == 5

OpenPartial == Idle /\ Len(game.turn_logs) < MaxLogPartial

NextPartial ==
    \/ OpenPartial /\ SetGameActive(TRUE)
    \/ /\ OpenPartial
       /\ uuid_count < MaxIdsPartial
       /\ Complete([via |-> "rest", name |-> "create_dragon_spot",
                    arguments |-> [location_name |-> "Castle",
                                   dragon_type |-> "ice"]],
                   create_dragon_spot(game, NextId("dragon"), "Castle", "ice"),
                   TRUE, 1)
    \/ \E id \in IdInputs("dragon") :
          /\ OpenPartial
          /\ uuid_count < MaxIdsPartial
          /\ Complete([via |-> "rest", name |-> "create_target",
                       arguments |-> [location_name |-> None,
                                      linked_dragon_spot_id |-> Some(id)]],
                      create_target(game, NextId("target"), None, Some(id)),
                      TRUE, 1)
    \/ LET r == create_trebuchet(game, NextId("trebuchet"), "Castle")
           built == Len(r.g.trebuchets) > Len(game.trebuchets)
       IN  /\ OpenPartial
           /\ built => uuid_count < MaxIdsPartial
           /\ Complete([via |-> "rest", name |-> "create_trebuchet",
                        arguments |-> [location_name |-> "Castle"]],
                       r, r.msg # "" /\ ~contains(r.msg, "Cannot "),
                       IF built THEN 1 ELSE 0)
    \/ \E id \in IdInputs("dragon"), m \in MethodInputs :
          OpenPartial /\ AttackTarget(id, m)
    \/ \E to \in CombatLocations : OpenPartial /\ MoveKnight(to, None)
    \/ Deliver

SpecPartial == Init /\ [][NextPartial]_vars

(***************************************************************************)
(* Properties.  A call is one step from an idle server to a response; the  *)
(* unprimed variables are the program before the call, the primed ones     *)
(* the program when the response leaves.                                   *)
(***************************************************************************)
Call(name) == Idle /\ request'.name = name

Ids(s) == {s[i].id : i \in 1..Len(s)}

Statuses(s) == [i \in 1..Len(s) |-> <<s[i].id, s[i].status>>]

\* the dragon spots a target's link names (none for a dangling link)
LinkedSpots(g, t) ==
    {i \in 1..Len(g.dragon_spots) :
        /\ t.linked_dragon_spot_id # None
        /\ g.dragon_spots[i].id = t.linked_dragon_spot_id[1]}

\* C1: in every reachable state the trebuchet collection holds at most one
\* trebuchet.
C1_AtMostOneTrebuchet == Len(game.trebuchets) <= 1

\* a second build was asked for while a trebuchet stood, and was refused
C1_Witness ==
    /\ request.name = "create_trebuchet"
    /\ startswith(response.message, "Cannot build trebuchet: one already exists")
    /\ Len(game.trebuchets) = 1

\* C2: a create_trebuchet call builds a trebuchet exactly when the cooldown
\* is 0 and no trebuchet exists; otherwise it answers 'Cannot build' and
\* leaves the trebuchet collection and the cooldown as they were.
C2_CreateTrebuchetIffAvailable ==
    [][Call("create_trebuchet") =>
          IF game.trebuchet_cooldown = 0 /\ Len(game.trebuchets) = 0
          THEN /\ Len(game'.trebuchets) = 1
               /\ startswith(response'.message, "Built trebuchet at ")
          ELSE /\ startswith(response'.message, "Cannot build")
               /\ game'.trebuchets = game.trebuchets
               /\ game'.trebuchet_cooldown = game.trebuchet_cooldown]_vars

\* a build was refused because the cooldown was running
C2_Witness ==
    /\ request.name = "create_trebuchet"
    /\ startswith(response.message, "Cannot build trebuchet: cooldown active")
    /\ game.trebuchet_cooldown > 0
    /\ Len(game.trebuchets) = 0

\* C7: every neutralized target whose link names a dragon spot of the store
\* has that spot neutralized.
C7_NeutralizedTargetHasNeutralizedSpot ==
    \A i \in 1..Len(game.targets) :
        game.targets[i].status = "neutralized" =>
            \A j \in LinkedSpots(game, game.targets[i]) :
                game.dragon_spots[j].status = "neutralized"

\* a linked target was neutralized and its spot is in the store
C7_Witness ==
    \E i \in 1..Len(game.targets) :
        /\ game.targets[i].status = "neutralized"
        /\ LinkedSpots(game, game.targets[i]) # {}

\* C8: no active target is linked to a neutralized dragon spot.
C8_NoActiveTargetOnNeutralizedSpot ==
    \A i \in 1..Len(game.targets) :
        game.targets[i].status = "active" =>
            \A j \in LinkedSpots(game, game.targets[i]) :
                game.dragon_spots[j].status = "active"

\* C9: every target linked to a dragon spot of the store has the location
\* of that spot.
C9_LinkedTargetAtSpotLocation ==
    \A i \in 1..Len(game.targets) :
        \A j \in LinkedSpots(game, game.targets[i]) :
            game.targets[i].location = game.dragon_spots[j].location

\* an adversary turn has run over a target whose spot had moved from where
\* it was created before the target was linked to it
C9_Witness ==
    /\ request.name = "create_target"
    /\ game.turn_count >= 2
    /\ \E i \in 1..Len(game.targets) :
          \E j \in LinkedSpots(game, game.targets[i]) :
              /\ game.targets[i].status = "active"
              /\ game.dragon_spots[j].status = "active"
              /\ game.dragon_spots[j].location = "North Ridge"

\* what an attack must leave alone when it fails
AttackFrame(g) ==
    <<Statuses(g.targets), Statuses(g.dragon_spots), g.trebuchets,
      g.trebuchet_cooldown, g.effect_knight_killed_at,
      g.effect_dragon_killed_by_knight_at,
      g.effect_dragon_killed_by_artillery_at>>

ArtilleryCall ==
    /\ Call("attack_target")
    /\ lower(request'.arguments.attack_method) = "artillery"

\* C10 as claimed: an artillery attack on a target or dragon spot of the
\* store, made while no trebuchet exists, answers 'Cannot attack with
\* artillery' and changes nothing.
C10_Claimed ==
    [][(/\ ArtilleryCall
        /\ Len(game.trebuchets) = 0
        /\ request'.arguments.target_id \in
               Ids(game.targets) \cup Ids(game.dragon_spots))
       => /\ startswith(response'.message, "Cannot attack with artillery")
          /\ AttackFrame(game') = AttackFrame(game)]_vars

\* the targets attack_target resolves an id to: the target of that id, or,
\* when there is none, the targets linked to the dragon spot of that id
Resolved(g, id) ==
    IF id \in Ids(g.targets)
    THEN {i \in 1..Len(g.targets) : g.targets[i].id = id}
    ELSE IF id \in Ids(g.dragon_spots)
    THEN {i \in 1..Len(g.targets) : g.targets[i].linked_dragon_spot_id = Some(id)}
    ELSE {}

\* C10 amended: an artillery attack that resolves to at least one target,
\* made while no trebuchet exists, answers 'Cannot attack with artillery'
\* and changes nothing.
C10_ArtilleryWithoutTrebuchet ==
    [][(/\ ArtilleryCall
        /\ Len(game.trebuchets) = 0
        /\ Resolved(game, request'.arguments.target_id) # {})
       => /\ startswith(response'.message, "Cannot attack with artillery")
          /\ AttackFrame(game') = AttackFrame(game)]_vars

\* an artillery attack on a linked target was refused for want of a
\* trebuchet; target and spot are still active
C10_Witness ==
    /\ request.name = "attack_target"
    /\ request.arguments.attack_method = "artillery"
    /\ startswith(response.message, "Cannot attack with artillery")
    /\ Len(game.trebuchets) = 0
    /\ \E i \in 1..Len(game.targets) :
          /\ game.targets[i].id = request.arguments.target_id
          /\ game.targets[i].status = "active"
          /\ \E j \in LinkedSpots(game, game.targets[i]) :
                game.dragon_spots[j].status = "active"

\* the messages by which the handlers report a failure
FailureMessage(m) ==
    \/ contains(m, " not found.")
    \/ startswith(m, "Cannot ")
    \/ startswith(m, "No knight")
    \/ startswith(m, "Invalid attack_method")

\* C3: when a handler answers with a failure (not found, 'Cannot ...',
\* 'No knight...', or an invalid attack method) the boundary neither logs
\* the action nor runs the adversary turn: turn_count and turn_logs are as
\* before the call.
C3_FailureAdvancesNothing ==
    [][(/\ Idle
        /\ request'.name \in ToolNames
        /\ FailureMessage(response'.message))
       => /\ game'.turn_count = game.turn_count
          /\ game'.turn_logs = game.turn_logs]_vars

\* the boundary took the call for a player's action: it logged the message
PlayerLine(g) == Len(g.turn_logs) + 1

Accepted ==
    /\ Idle
    /\ request'.name \in ToolNames
    /\ Len(game'.turn_logs) >= PlayerLine(game)
    /\ game'.turn_logs[PlayerLine(game)] = response'.message

\* C4: turn_count never decreases; a call accepted while game_active is
\* true runs the adversary turn once (turn_count grows by 1, one turn
\* header follows the player's line); any other step leaves turn_count
\* alone, and while game_active is false nothing of the engine happens:
\* no line but the player's or the mode line is logged, the cooldown does
\* not fall, no knight is removed or loses its grace turn, no spot moves
\* or is spawned.
C4_OneTurnPerAcceptedAction ==
    [][/\ game'.turn_count >= game.turn_count
       /\ (Accepted /\ game.game_active) =>
             /\ game'.turn_count = game.turn_count + 1
             /\ game'.turn_logs[PlayerLine(game) + 1]
                  = "--- Turn " \o ToString(game'.turn_count) \o " ---"
             /\ \A i \in (PlayerLine(game) + 2)..Len(game'.turn_logs) :
                   ~startswith(game'.turn_logs[i], "--- Turn ")
       /\ ~(Accepted /\ game.game_active) =>
             game'.turn_count = game.turn_count
       /\ ~game.game_active =>
             /\ Len(game'.turn_logs) <= Len(game.turn_logs) + 1
             /\ game'.trebuchet_cooldown >= game.trebuchet_cooldown
             /\ request'.name # "delete_knight" =>
                   \A i \in 1..Len(game.knights) :
                       \E j \in 1..Len(game'.knights) :
                           /\ game'.knights[j].id = game.knights[i].id
                           /\ game.knights[i].grace_turn
                                 => game'.knights[j].grace_turn
             /\ \A i \in 1..Len(game.dragon_spots) :
                   \A j \in 1..Len(game'.dragon_spots) :
                       game'.dragon_spots[j].id = game.dragon_spots[i].id
                           => game'.dragon_spots[j].location
                                = game.dragon_spots[i].location
             /\ request'.name # "create_dragon_spot" =>
                   Ids(game'.dragon_spots) \subseteq Ids(game.dragon_spots)]_vars

\* an accepted call in simulation mode: the first adversary turn has run
C4_Witness ==
    /\ request.name \in ToolNames
    /\ game.game_active
    /\ game.turn_count = 1
    /\ Len(game.turn_logs) >= 3
    /\ game.turn_logs[2] = response.message
    /\ game.turn_logs[3] = "--- Turn 1 ---"

\* the knight a move_knight call moves, as an index into the knights
MovedIndex(g, knight_name) ==
    IF knight_name = None THEN 1
    ELSE IndexOfName(g.knights, lower(knight_name[1]))

Moved ==
    /\ Call("move_knight")
    /\ startswith(response'.message, "Moved knight '")

TurnRan == game'.turn_count = game.turn_count + 1

\* C5: the knight moved by an accepted move_knight is still in the store
\* when the adversary turn of that call is over.
C5_MovedKnightSurvivesItsTurn ==
    [][(Moved /\ TurnRan) =>
          game.knights[MovedIndex(game, request'.arguments.knight_name)].id
              \in Ids(game'.knights)]_vars

\* the dragon spots that took part in the combat pass of the turn that
\* led to g: all but a spot spawned at the end of that turn
SpotsAtCombat(g) ==
    IF Len(g.turn_logs) > 0
       /\ startswith(g.turn_logs[Len(g.turn_logs)], "Dragon spawned at ")
    THEN 1..(Len(g.dragon_spots) - 1)
    ELSE 1..Len(g.dragon_spots)

\* Sir Roland was moved to North Ridge, an active dragon was there at the
\* combat pass of that turn, and he is alive
C5_Witness ==
    /\ request.name = "move_knight"
    /\ response.message = "Moved knight 'Sir Roland' to North Ridge."
    /\ game.turn_count >= 1
    /\ game.turn_logs[Len(game.turn_logs)] # response.message
    /\ \E i \in 1..Len(game.knights) :
          /\ game.knights[i].id = "knight-1"
          /\ game.knights[i].location = "North Ridge"
    /\ \E j \in SpotsAtCombat(game) :
          /\ game.dragon_spots[j].status = "active"
          /\ game.dragon_spots[j].location = "North Ridge"

\* C6: when an adversary turn is over every knight has grace_turn false,
\* and every knight that entered the call with grace_turn false, was not
\* moved by the call and shared its location with an active dragon spot at
\* the combat pass is gone.
C6_GraceLastsOneTurn ==
    [][TurnRan =>
          /\ \A j \in 1..Len(game'.knights) : ~game'.knights[j].grace_turn
          /\ \A i \in 1..Len(game.knights) :
                (/\ ~game.knights[i].grace_turn
                 /\ ~(Moved /\ i = MovedIndex(game, request'.arguments.knight_name))
                 /\ \E j \in SpotsAtCombat(game') :
                       /\ game'.dragon_spots[j].status = "active"
                       /\ game'.dragon_spots[j].location
                            = game.knights[i].location)
                => game.knights[i].id \notin Ids(game'.knights)]_vars

\* Sir Roland was moved to North Ridge in one turn, was not moved again,
\* and was killed there in a later turn
C6_Witness ==
    /\ game.turn_count >= 2
    /\ "knight-1" \notin Ids(game.knights)
    /\ game.effect_knight_killed_at = Some("North Ridge")
    /\ \E i \in 1..Len(game.turn_logs) :
          /\ game.turn_logs[i] = "Moved knight 'Sir Roland' to North Ridge."
          /\ \A j \in (i + 1)..Len(game.turn_logs) :
                ~startswith(game.turn_logs[j], "Moved knight 'Sir Roland'")
          /\ \E j \in (i + 2)..Len(game.turn_logs) :
                /\ startswith(game.turn_logs[j], "--- Turn ")
                /\ game.turn_logs[j] # "--- Turn 1 ---"
                /\ \E k \in (j + 1)..Len(game.turn_logs) :
                      game.turn_logs[k] = "Knight killed at North Ridge!"

\* the record of the store with the given id (the id is in the store)
ById(s, id) == s[CHOOSE i \in 1..Len(s) : s[i].id = id]

\* C11: an artillery attack by target id, made while a trebuchet exists on
\* a target linked to a dragon spot of the store, leaves at handler return
\* the target and its spot neutralized, no trebuchet, trebuchet_cooldown 3
\* and the artillery effect at the target's location; when the response
\* leaves, the same holds but for the cooldown, which the adversary turn
\* of the call has already lowered to 2 in simulation mode.
C11_ArtilleryConsumesTrebuchet ==
    [][(/\ ArtilleryCall
        /\ Len(game.trebuchets) > 0
        /\ request'.arguments.target_id \in Ids(game.targets)
        /\ LinkedSpots(game, ById(game.targets, request'.arguments.target_id)) # {})
       => LET id == request'.arguments.target_id
              t == ById(game.targets, id)
              r == attack_target(game, id, request'.arguments.attack_method)
          IN  /\ r.g.trebuchet_cooldown = 3
              /\ r.g.trebuchets = <<>>
              /\ ById(r.g.targets, id).status = "neutralized"
              /\ response'.message = "Target(s) neutralized (artillery)."
              /\ ById(game'.targets, id).status = "neutralized"
              /\ ById(game'.dragon_spots, t.linked_dragon_spot_id[1]).status
                    = "neutralized"
              /\ game'.trebuchets = <<>>
              /\ game'.trebuchet_cooldown = IF game.game_active THEN 2 ELSE 3
              /\ game'.effect_dragon_killed_by_artillery_at = Some(t.location)]_vars

\* the trebuchet was fired at a linked target: target and spot are
\* neutralized, the trebuchet is gone and the cooldown runs
C11_Witness ==
    /\ request.name = "attack_target"
    /\ request.arguments.attack_method = "artillery"
    /\ response.message = "Target(s) neutralized (artillery)."
    /\ game.trebuchets = <<>>
    /\ game.trebuchet_cooldown = 3
    /\ \E i \in 1..Len(game.targets) :
          /\ game.targets[i].id = request.arguments.target_id
          /\ game.targets[i].status = "neutralized"
          /\ game.effect_dragon_killed_by_artillery_at
                = Some(game.targets[i].location)
          /\ \E j \in LinkedSpots(game, game.targets[i]) :
                game.dragon_spots[j].status = "neutralized"

\* an attack on the id of a dragon spot that no target is linked to
UnlinkedSpotCall ==
    /\ Call("attack_target")
    /\ request'.arguments.target_id \in Ids(game.dragon_spots)
    /\ Resolved(game, request'.arguments.target_id) = {}

\* C12: a knight attack on the id of a dragon spot that no target is
\* linked to, made while no knight is at the spot's location, answers
\* 'Cannot attack with knight' and leaves every status as it was.
C12_KnightGatesUnlinkedSpot ==
    [][(/\ UnlinkedSpotCall
        /\ lower(request'.arguments.attack_method) = "knight"
        /\ ~knight_at_location(
               game, ById(game.dragon_spots, request'.arguments.target_id).location))
       => /\ startswith(response'.message, "Cannot attack with knight")
          /\ Statuses(game'.dragon_spots) = Statuses(game.dragon_spots)
          /\ Statuses(game'.targets) = Statuses(game.targets)]_vars

KeepLast(s, n) == IF Len(s) > n THEN SubSeq(s, Len(s) - n + 1, Len(s)) ELSE s

\* the last k lines of the log g holds
LastLines(g, k) ==
    SubSeq(g.turn_logs, Len(g.turn_logs) - k + 1, Len(g.turn_logs))

\* the step appends k lines to the log: a call with an adversary turn
\* appends the player's line, the header of the turn and the events of
\* the turn; a mode change appends the mode line; an accepted call in
\* sandbox mode appends the player's line; a call that answers with a
\* failure appends its line if the boundary accepts it and nothing
\* otherwise; any other step appends nothing
StepAppends(k) ==
    IF TurnRan
    THEN /\ k >= 2
         /\ k <= Len(game'.turn_logs)
         /\ LastLines(game', k)[1] = response'.message
         /\ LastLines(game', k)[2]
               = "--- Turn " \o ToString(game'.turn_count) \o " ---"
    ELSE IF Call("set_game_active")
    THEN /\ k = 1
         /\ LastLines(game', 1)[1]
               = (IF game'.game_active THEN "Game started (simulation mode)."
                  ELSE "Game paused (sandbox mode).")
    ELSE IF Idle /\ request'.name \in ToolNames
    THEN /\ k \in {0, 1}
         /\ ~FailureMessage(response'.message) => k = 1
         /\ k = 1 => LastLines(game', 1)[1] = response'.message
    ELSE k = 0

\* C14: the log never holds more than 100 lines, and every step that
\* appends k lines leaves the last 100 of the old log followed by those k
\* lines, in that order; whence after N appended lines the log holds the
\* min(N, 100) most recent ones in append order.
C14_LogKeepsLatestHundred ==
    [][/\ Len(game'.turn_logs) <= 100
       /\ \E k \in 0..Len(game'.turn_logs) :
             /\ StepAppends(k)
             /\ game'.turn_logs
                   = KeepLast(game.turn_logs \o LastLines(game', k), 100)]_vars

\* more than 100 lines were appended: the log holds 100 lines, its oldest
\* line is a turn header whose player's line was dropped, and the last
\* cycle appended three lines, the death of a knight being the latest
C14_Witness ==
    /\ Len(game.turn_logs) = 100
    /\ game.turn_count >= 50
    /\ startswith(game.turn_logs[1], "--- Turn ")
    /\ game.turn_logs[99] = "--- Turn " \o ToString(game.turn_count) \o " ---"
    /\ game.turn_logs[100] = "Knight killed at North Ridge!"

\* the three one-shot effect values of a state response
EffectsOf(state) ==
    <<state.effect_knight_killed_at, state.effect_dragon_killed_by_knight_at,
      state.effect_dragon_killed_by_artillery_at>>

\* the thread of caller c takes the step of GET /state that reads the world
ReadsState(c) == threads[c].pc = "ready" /\ threads'[c].pc = "read"

\* C15: a state read returns the effect values and clears them in one
\* step, so that no stamped effect is returned by two reads: a read that
\* follows the read of another caller with no event in between (it sees
\* the world the other read has seen) returns none for all three.
C15_EffectDeliveredOnce ==
    [][\A c, d \in Callers :
          (/\ c # d
           /\ threads[c].pc = "read"
           /\ ReadsState(d)
           /\ threads'[d].state = threads[c].state)
          => EffectsOf(threads'[d].state) = <<None, None, None>>]_vars

\* the thread is between the handler call of its cycle and the end of the
\* adversary turn, or between the two statements of a reset
InCriticalSection(t) == t.pc \in {"handled", "logged", "constructed"}

\* C16: a cycle (handler call, log append, adversary turn) and a reset
\* run as one critical section: while the thread of one caller is inside
\* one, no thread of another caller takes a step.
C16_CycleIsCriticalSection ==
    [][\A c \in Callers :
          InCriticalSection(threads[c])
          => \A d \in Callers \ {c} : threads'[d] = threads[d]]_vars

\* the link of the target t names a dragon spot that is not in the store
Stale(g, t) == truthy(t.linked_dragon_spot_id) /\ LinkedSpots(g, t) = {}

\* the indices of the targets of g with a stale link
StaleTargets(g) == {i \in 1..Len(g.targets) : Stale(g, g.targets[i])}

\* an attack on the target t meets the precondition of its method
AttackAllowed(g, t, method) ==
    \/ method = "knight" /\ knight_at_location(g, t.location)
    \/ method = "artillery" /\ Len(g.trebuchets) > 0

\* C17: a target whose link names a deleted dragon spot is handled as a
\* target without link.  An attack on it neutralizes it and answers with
\* the success message when the precondition of the method holds, and is
\* refused with 'Cannot attack with ...' otherwise, and no dragon spot
\* changes its status; an adversary turn that runs while such a target is
\* active runs to its end (header logged, grace turns cleared); a state
\* read lists the target at its own coordinates and offset.
C17_StaleLinkIsUnlinked ==
    [][/\ (/\ Call("attack_target")
           /\ request'.arguments.target_id \in Ids(game.targets)
           /\ Stale(game, ById(game.targets, request'.arguments.target_id)))
          => LET id == request'.arguments.target_id
                 method == request'.arguments.attack_method
                 t == ById(game.targets, id)
             IN  /\ IF AttackAllowed(game, t, method)
                    THEN /\ response'.message
                               = "Target(s) neutralized (" \o method \o ")."
                         /\ ById(game'.targets, id).status = "neutralized"
                    ELSE /\ startswith(response'.message, "Cannot attack with ")
                         /\ ById(game'.targets, id).status = t.status
                 /\ \A j \in 1..Len(game.dragon_spots) :
                       game'.dragon_spots[j].status = game.dragon_spots[j].status
       /\ (/\ TurnRan
           /\ \E i \in StaleTargets(game) : game.targets[i].status = "active")
          => /\ \E k \in 1..Len(game'.turn_logs) :
                   game'.turn_logs[k]
                       = "--- Turn " \o ToString(game'.turn_count) \o " ---"
             /\ \A k \in 1..Len(game'.knights) : ~game'.knights[k].grace_turn
       /\ Call("state")
          => /\ Len(response'.targets) = Len(game.targets)
             /\ \A i \in StaleTargets(game) :
                   LET t == game.targets[i]
                       d == placement_offset(t.id)
                   IN  /\ response'.targets[i].id = t.id
                       /\ response'.targets[i].x
                             = plus(coords_of_target(t)[1], d[1])
                       /\ response'.targets[i].y
                             = plus(coords_of_target(t)[2], d[2])]_vars

\* the spot of a linked target was deleted, the target was attacked and
\* neutralized afterwards, and a state read lists it at Castle
C17_Witness ==
    /\ response.kind = "state"
    /\ \E i \in StaleTargets(game) :
          /\ game.targets[i].status = "neutralized"
          /\ response.targets[i].x
                = plus(28, placement_offset(game.targets[i].id)[1])
          /\ \E k \in 1..Len(game.turn_logs) :
                /\ game.turn_logs[k]
                      = "Removed dragon spot "
                          \o game.targets[i].linked_dragon_spot_id[1] \o "."
                /\ \E n \in (k + 1)..Len(game.turn_logs) :
                      startswith(game.turn_logs[n], "Target(s) neutralized (")

\* the inputs that are variants, in casing and surrounding blanks, of the
\* name of the lookup that was just answered
Variants ==
    LET wanted == lower(strip(request.arguments.location_name))
    IN  {v \in LookupInputs : lower(strip(v)) = wanted}

\* the registry holds the name of the lookup that was just answered
Registered ==
    IndexOfName(game.locations,
                lower(strip(request.arguments.location_name))) # 0

\* C18: the answer of a lookup is the answer every variant of the name
\* gets, for known and for unknown names, whatever was looked up before
C18_LookupsAgreeOnVariants ==
    /\ response.kind = "coordinates"
       => \A v \in Variants : resolve_location(game, v).xy = response.xy
    /\ response.kind = "name"
       => \A v \in Variants : canonical_location_name(game, v) = response.name

\* C18, amended: _resolve_location answers every variant of a name with
\* the same coordinates; _canonical_location_name answers every variant of
\* a name the registry holds with the stored key, and a name the registry
\* does not hold with the trimmed input in the casing it was given
C18_LookupsAgreeOnRegistered ==
    /\ response.kind = "coordinates"
       => \A v \in Variants : resolve_location(game, v).xy = response.xy
    /\ response.kind = "name"
       => IF Registered
          THEN \A v \in Variants :
                 canonical_location_name(game, v) = response.name
          ELSE response.name = strip(request.arguments.location_name)

\* ' swamp' is answered with the key 'Swamp', which an earlier
\* _resolve_location of another variant left in the registry
C18_Witness ==
    /\ response.kind = "name"
    /\ request.arguments.location_name = " swamp"
    /\ response.name = "Swamp"

\* in g the knight i, with no grace turn, stands at the location of the
\* active unlocked dragon spot j
Threatens(g, i, j) ==
    /\ ~g.knights[i].grace_turn
    /\ g.dragon_spots[j].status = "active"
    /\ g.dragon_spots[j].id \notin locked_dragon_ids(g)
    /\ g.dragon_spots[j].location = g.knights[i].location

\* the dragon spots of g that threaten a knight
ThreatSpots(g) ==
    {j \in 1..Len(g.dragon_spots) :
        \E i \in 1..Len(g.knights) : Threatens(g, i, j)}

\* the step is one accepted action with its adversary turn, taken in
\* simulation mode while exactly one dragon spot threatens a knight
OneThreatCycle ==
    /\ game.game_active
    /\ TurnRan
    /\ Cardinality(ThreatSpots(game)) = 1

\* the dragon spot d of the old state is at another location in the new one
Relocated(d) ==
    /\ d.id \in Ids(game'.dragon_spots)
    /\ ById(game'.dragon_spots, d.id).location # d.location

\* C19: in simulation mode, one accepted action taken while exactly one
\* active unlocked dragon spot shares its location with a knight without
\* grace turn, which the action does not move, ends in one of two ways:
\* the knight is gone and effect_knight_killed_at is that location, or the
\* dragon spot is at another location and the knight is in the store.
C19_KillOrRelocate ==
    [][OneThreatCycle =>
          \A i \in 1..Len(game.knights), j \in 1..Len(game.dragon_spots) :
              (/\ Threatens(game, i, j)
               /\ ~(Moved /\ i = MovedIndex(game, request'.arguments.knight_name)))
              => LET k == game.knights[i]
                     d == game.dragon_spots[j]
                 IN  \/ /\ k.id \notin Ids(game'.knights)
                        /\ game'.effect_knight_killed_at = Some(k.location)
                     \/ /\ k.id \in Ids(game'.knights)
                        /\ Relocated(d)]_vars

\* the lines the log of g holds after the header of its latest turn
TurnLines(g) ==
    LET header == "--- Turn " \o ToString(g.turn_count) \o " ---"
        at == CHOOSE n \in 0..Len(g.turn_logs) :
                /\ n # 0 => g.turn_logs[n] = header
                /\ \A m \in (n + 1)..Len(g.turn_logs) : g.turn_logs[m] # header
    IN  SubSeq(g.turn_logs, at + 1, Len(g.turn_logs))

\* the last line of lines that reports a killed knight; "" if none
RECURSIVE LastKill(_)
LastKill(lines) ==
    IF Len(lines) = 0 THEN ""
    ELSE IF startswith(lines[Len(lines)], "Knight killed at ")
    THEN lines[Len(lines)]
    ELSE LastKill(SubSeq(lines, 1, Len(lines) - 1))

\* C19, amended: when the action is none of delete_knight,
\* delete_dragon_spot and attack_target, the cycle ends in one of two
\* ways: the knight is gone, its death at its location is logged in that
\* turn and effect_knight_killed_at is the location of the last knight
\* killed in that turn; or the dragon spot is at another location and the
\* knight is in the store.
C19_KillOrRelocateLastKill ==
    [][(/\ OneThreatCycle
        /\ request'.name \notin
              {"delete_knight", "delete_dragon_spot", "attack_target"}) =>
          \A i \in 1..Len(game.knights), j \in 1..Len(game.dragon_spots) :
              (/\ Threatens(game, i, j)
               /\ ~(Moved /\ i = MovedIndex(game, request'.arguments.knight_name)))
              => LET k == game.knights[i]
                     d == game.dragon_spots[j]
                     lines == TurnLines(game')
                 IN  \/ /\ k.id \notin Ids(game'.knights)
                        /\ \E n \in 1..Len(lines) :
                              lines[n] = "Knight killed at " \o k.location \o "!"
                        /\ truthy(game'.effect_knight_killed_at)
                        /\ LastKill(lines)
                              = "Knight killed at "
                                  \o game'.effect_knight_killed_at[1] \o "!"
                     \/ /\ k.id \in Ids(game'.knights)
                        /\ Relocated(d)]_vars

\* in the first turn the knight at North Ridge was killed by the spot
\* that stayed there, then Sir Roland at Castle by a spot that moved in,
\* and the effect holds Castle
C19_Witness ==
    /\ game.turn_count = 1
    /\ game.knights = <<>>
    /\ game.effect_knight_killed_at = Some("Castle")
    /\ \E n \in 1..Len(game.turn_logs) :
          /\ game.turn_logs[n] = "Knight killed at North Ridge!"
          /\ \E m \in (n + 1)..Len(game.turn_logs) :
                game.turn_logs[m] = "Knight killed at Castle!"

\* C20: a dragon spot leaves the store only in a delete_dragon_spot call
\* that names it and a target only in a delete_target call that names it;
\* no attack and no adversary turn removes either, and after a successful
\* attack on a target the target, and its linked dragon spot if the store
\* holds it, are in the store with status neutralized.
C20_OnlyDeleteRemoves ==
    [][/\ Ids(game.dragon_spots) \ Ids(game'.dragon_spots)
            \subseteq IF Call("delete_dragon_spot")
                      THEN {request'.arguments.dragon_spot_id}
                      ELSE {}
       /\ Ids(game.targets) \ Ids(game'.targets)
            \subseteq IF Call("delete_target")
                      THEN {request'.arguments.target_id}
                      ELSE {}
       /\ (/\ Call("attack_target")
           /\ startswith(response'.message, "Target(s) neutralized (")
           /\ request'.arguments.target_id \in Ids(game.targets))
          => LET t == ById(game'.targets, request'.arguments.target_id)
             IN  /\ t.status = "neutralized"
                 /\ \A j \in LinkedSpots(game, ById(game.targets, t.id)) :
                       LET d == game.dragon_spots[j]
                       IN  /\ d.id \in Ids(game'.dragon_spots)
                           /\ ById(game'.dragon_spots, d.id).status
                                 = "neutralized"]_vars

\* in simulation mode an attack neutralized a target and its linked dragon
\* spot, the adversary turn of that call ran, and both are in the store
C20_Witness ==
    /\ request.name = "attack_target"
    /\ startswith(response.message, "Target(s) neutralized (")
    /\ game.game_active
    /\ game.turn_count >= 1
    /\ \E i \in 1..Len(game.targets) :
          /\ game.targets[i].id = request.arguments.target_id
          /\ game.targets[i].status = "neutralized"
          /\ \E j \in LinkedSpots(game, game.targets[i]) :
                game.dragon_spots[j].status = "neutralized"

\* the call fires the trebuchet: an artillery attack that resolves to a
\* target while a trebuchet stands
Fires ==
    /\ ArtilleryCall
    /\ Resolved(game, request'.arguments.target_id) # {}
    /\ Len(game.trebuchets) > 0

\* C21: trebuchet_cooldown is never negative.  The handler of a call
\* leaves it alone unless the call fires the trebuchet, which sets it to
\* 3; the adversary turn of the call, if one runs, then lowers it by 1
\* when it is positive and leaves it at 0 otherwise.
C21_CooldownSteps ==
    [][LET handled == IF Fires THEN 3 ELSE game.trebuchet_cooldown
       IN  /\ game.trebuchet_cooldown >= 0
           /\ game'.trebuchet_cooldown
                 = IF TurnRan /\ handled > 0 THEN handled - 1 ELSE handled]_vars

\* the trebuchet was fired and the cooldown ran down to 0 over three
\* turns; a fourth turn has left it at 0
C21_Witness ==
    /\ game.trebuchet_cooldown = 0
    /\ \E n \in 1..Len(game.turn_logs) :
          /\ game.turn_logs[n] = "Target(s) neutralized (artillery)."
          /\ Cardinality({m \in (n + 1)..Len(game.turn_logs) :
                            startswith(game.turn_logs[m], "--- Turn ")}) >= 4

\* the entities of g other than the knights
OtherEntities(g) == <<g.dragon_spots, g.targets, g.trebuchets>>

\* C22: add_knight answers with its success message, which is logged, and
\* takes one new id.  In sandbox mode the store then holds the knights it
\* held, unchanged, followed by one new knight with the given name, the
\* canonical form of the given location and grace_turn false, every other
\* entity is unchanged, and a state read of a world that was empty shows
\* exactly that knight.  In simulation mode the new knight is in the store
\* in that form when the turn of the call is over, or the turn has logged
\* a kill at its location.  A state read lists the knights of the store.
C22_AddKnightAddsOne ==
    [][/\ Call("add_knight")
          => LET name == request'.arguments.name
                 canonical == canonical_location_name(
                                  game, request'.arguments.location_name)
                 message == "Added knight '" \o name \o "' at " \o canonical \o "."
                 id == NextId("knight")
             IN  /\ response'.message = message
                 /\ \E n \in 1..Len(game'.turn_logs) : game'.turn_logs[n] = message
                 /\ uuid_count' >= uuid_count + 1
                 /\ ~game.game_active
                    => /\ Len(game'.knights) = Len(game.knights) + 1
                       /\ SubSeq(game'.knights, 1, Len(game.knights)) = game.knights
                       /\ LET k == game'.knights[Len(game'.knights)]
                          IN  /\ k.id = id
                              /\ k.name = name
                              /\ k.location = canonical
                              /\ ~k.grace_turn
                       /\ OtherEntities(game') = OtherEntities(game)
                       /\ (game.knights = <<>> /\ OtherEntities(game) = <<<<>>, <<>>, <<>>>>)
                          => LET state == state_for_api(game')
                             IN  /\ Len(state.knights) = 1
                                 /\ state.knights[1].id = id
                                 /\ state.knights[1].name = name
                                 /\ state.knights[1].location = canonical
                                 /\ ~state.knights[1].grace_turn
                                 /\ OtherEntities(state) = <<<<>>, <<>>, <<>>>>
                 /\ game.game_active
                    => \/ /\ id \in Ids(game'.knights)
                          /\ ById(game'.knights, id).location = canonical
                          /\ ~ById(game'.knights, id).grace_turn
                       \/ \E n \in 1..Len(TurnLines(game')) :
                             TurnLines(game')[n]
                                 = "Knight killed at " \o canonical \o "!"
       /\ Call("state")
          => /\ Len(response'.knights) = Len(game.knights)
             /\ \A i \in 1..Len(game.knights) :
                   /\ response'.knights[i].id = game.knights[i].id
                   /\ response'.knights[i].name = game.knights[i].name
                   /\ response'.knights[i].location = game.knights[i].location
                   /\ response'.knights[i].grace_turn = game.knights[i].grace_turn]_vars

\* Sir Roland was deleted and, in sandbox mode, a knight was added to the
\* empty world at ' north ridge': he is the one knight, at North Ridge
C22_Witness ==
    /\ request.name = "add_knight"
    /\ request.arguments.location_name = " north ridge"
    /\ ~game.game_active
    /\ game.turn_logs[1] = "Removed knight knight-1."
    /\ Len(game.knights) = 1
    /\ game.knights[1].name = "Knight"
    /\ game.knights[1].location = "North Ridge"
    /\ ~game.knights[1].grace_turn
    /\ OtherEntities(game) = <<<<>>, <<>>, <<>>>>

\* C23: set_game_active answers 'Game started.' or 'Game paused.', sets
\* game_active to its argument and appends one mode line to the log;
\* nothing else of the world changes (turn_count, trebuchet_cooldown,
\* registry, entities, effect fields) and no id is taken.
C23_SetGameActiveFrame ==
    [][Call("set_game_active")
       => LET active == request'.arguments.game_active
              line == IF active THEN "Game started (simulation mode)."
                      ELSE "Game paused (sandbox mode)."
          IN  /\ response'.message
                    = "Game " \o (IF active THEN "started" ELSE "paused") \o "."
              /\ game'.game_active = active
              /\ game'.turn_logs = KeepLast(Append(game.turn_logs, line), LogLimit)
              /\ [game' EXCEPT !.game_active = game.game_active,
                               !.turn_logs = game.turn_logs] = game
              /\ uuid_count' = uuid_count]_vars

\* the simulation was paused while the cooldown ran: the turn count, the
\* cooldown and the artillery effect are as the last turn left them
C23_Witness ==
    /\ request.name = "set_game_active"
    /\ ~game.game_active
    /\ game.turn_count >= 1
    /\ game.trebuchet_cooldown = 2
    /\ game.effect_dragon_killed_by_artillery_at = Some("Castle")
    /\ Len(game.targets) = 1
    /\ game.turn_logs[Len(game.turn_logs)] = "Game paused (sandbox mode)."

\* the dragon spots of the old state that the new state still holds, as
\* pairs of their indices in the two
Kept ==
    {p \in (1..Len(game.dragon_spots)) \X (1..Len(game'.dragon_spots)) :
        game.dragon_spots[p[1]].id = game'.dragon_spots[p[2]].id}

\* an active target of the new state links the dragon spot d: the handler
\* of the step has left it so, and the turn does not touch the targets
LockedInTurn(d) ==
    \E i \in 1..Len(game'.targets) :
        /\ game'.targets[i].status = "active"
        /\ game'.targets[i].linked_dragon_spot_id = Some(d.id)

\* C24: a dragon spot that an active target links when the adversary turn
\* runs has the location and the coordinates after the turn that it had
\* before.
C24_LockedSpotStays ==
    [][TurnRan =>
          \A p \in Kept :
              LockedInTurn(game.dragon_spots[p[1]])
              => /\ game'.dragon_spots[p[2]].location
                       = game.dragon_spots[p[1]].location
                 /\ game'.dragon_spots[p[2]].coordinates
                       = game.dragon_spots[p[1]].coordinates]_vars

\* a spot moved to North Ridge in the turn of its creation; a target was
\* then linked to it and the spot is still there after the turn of that
\* call, in which it was locked
C24_Witness ==
    /\ request.name = "create_target"
    /\ game.turn_count = 2
    /\ \E i \in 1..Len(game.targets) :
          /\ game.targets[i].status = "active"
          /\ \E j \in LinkedSpots(game, game.targets[i]) :
                /\ game.dragon_spots[j].status = "active"
                /\ game.dragon_spots[j].location = "North Ridge"
                /\ game.dragon_spots[j].type = "ice"

\* the dragon spots that changed their location in the step
Relocations ==
    {p \in Kept : game'.dragon_spots[p[2]].location
                      # game.dragon_spots[p[1]].location}

\* the dragon spot the call created is not where the call put it
CreatedSpotMoved ==
    /\ Call("create_dragon_spot")
    /\ \E j \in 1..Len(game'.dragon_spots) :
          /\ game'.dragon_spots[j].id = NextId("dragon")
          /\ game'.dragon_spots[j].location
                # canonical_location_name(game, request'.arguments.location_name)

\* C25: a dragon spot changes its location only in an adversary turn in
\* which it is active and unlocked; its new location is a name of the
\* registry other than its old location, with the coordinates the
\* registry holds for it; every 'Dragon moved to' line of a turn is such a
\* change, of a spot the store held or of the spot the call created; a
\* neutralized spot keeps its location in every step.
C25_OnlyActiveUnlockedMove ==
    [][/\ \A p \in Relocations :
             LET old == game.dragon_spots[p[1]]
                 new == game'.dragon_spots[p[2]]
             IN  /\ TurnRan
                 /\ old.status = "active"
                 /\ new.status = "active"
                 /\ ~LockedInTurn(old)
                 /\ \E n \in 1..Len(game'.locations) :
                       /\ game'.locations[n].name = new.location
                       /\ game'.locations[n].xy = new.coordinates
       /\ TurnRan
          => Cardinality({n \in 1..Len(TurnLines(game')) :
                            startswith(TurnLines(game')[n], "Dragon moved to ")})
               = Cardinality(Relocations)
                   + (IF CreatedSpotMoved THEN 1 ELSE 0)]_vars

\* a spot was neutralized at Castle in sandbox mode; in simulation mode a
\* second spot has moved to North Ridge while the first is where it was
C25_Witness ==
    /\ game.turn_count >= 1
    /\ \E j, k \in 1..Len(game.dragon_spots) :
          /\ game.dragon_spots[j].status = "neutralized"
          /\ game.dragon_spots[j].location = "Castle"
          /\ game.dragon_spots[k].status = "active"
          /\ game.dragon_spots[k].type = "ice"
          /\ game.dragon_spots[k].location = "North Ridge"
    /\ \E n \in 1..Len(game.turn_logs) :
          game.turn_logs[n] = "Dragon moved to North Ridge."

\* the call moves the knight of the old state with the given id
MovesKnight(id) ==
    /\ Moved
    /\ game.knights[MovedIndex(game, request'.arguments.knight_name)].id = id

\* an active dragon spot stands at loc in the combat pass of the turn of
\* the step
DragonAtCombat(loc) ==
    \E j \in SpotsAtCombat(game') :
        /\ game'.dragon_spots[j].status = "active"
        /\ game'.dragon_spots[j].location = loc

\* the knights of the old state that the step takes out of the store
\* otherwise than by delete_knight
Killed ==
    {i \in 1..Len(game.knights) :
        /\ game.knights[i].id \notin Ids(game'.knights)
        /\ ~(Call("delete_knight")
             /\ request'.arguments.knight_id = game.knights[i].id)}

\* the knight the call added is not in the store
AddedKnightKilled ==
    Call("add_knight") /\ NextId("knight") \notin Ids(game'.knights)

\* C26: after an adversary turn no knight of the store stands at the
\* location of a dragon spot that was active in the combat pass, unless
\* the call moved him there; every knight the turn removed had grace_turn
\* false, was not moved by the call and stood at the location of such a
\* spot; each removal is logged, and the knight-killed effect holds the
\* location of the last one.
C26_CombatPass ==
    [][TurnRan =>
          /\ \A k \in 1..Len(game'.knights) :
                DragonAtCombat(game'.knights[k].location)
                => \/ MovesKnight(game'.knights[k].id)
                   \/ \E i \in 1..Len(game.knights) :
                         /\ game.knights[i].id = game'.knights[k].id
                         /\ game.knights[i].grace_turn
          /\ \A i \in Killed :
                /\ ~game.knights[i].grace_turn
                /\ ~MovesKnight(game.knights[i].id)
                /\ DragonAtCombat(game.knights[i].location)
          /\ LET lines == TurnLines(game')
                 kills == {n \in 1..Len(lines) :
                             startswith(lines[n], "Knight killed at ")}
             IN  /\ Cardinality(kills)
                       = Cardinality(Killed) + (IF AddedKnightKilled THEN 1 ELSE 0)
                 /\ \A i \in Killed :
                       \E n \in kills :
                           lines[n] = "Knight killed at "
                                         \o game.knights[i].location \o "!"
                 /\ kills # {}
                    => /\ truthy(game'.effect_knight_killed_at)
                       /\ LastKill(lines)
                             = "Knight killed at "
                                 \o game'.effect_knight_killed_at[1] \o "!"]_vars

\* two knights stood at North Ridge without grace turn and both were
\* killed there in the first turn
C26_Witness ==
    /\ game.turn_count = 1
    /\ game.effect_knight_killed_at = Some("North Ridge")
    /\ Cardinality({n \in 1..Len(game.turn_logs) :
                      game.turn_logs[n] = "Knight killed at North Ridge!"}) = 2
    /\ \A k \in 1..Len(game.knights) : game.knights[k].location # "North Ridge"

\* the turn of the step has spawned a dragon spot
Spawned ==
    /\ TurnRan
    /\ \E n \in 1..Len(TurnLines(game')) :
          startswith(TurnLines(game')[n], "Dragon spawned at ")

\* C27: the dragon spot a turn spawns is new in the store, active, of type
\* fire and at a name of the registry other than Castle, with the
\* coordinates the registry holds for it, and the spawn is the last line
\* the turn logs; a knight who stands at that location, whom the call
\* neither deleted nor moved, is still in the store after the turn unless
\* another active dragon spot is there.
C27_SpawnedSpot ==
    [][Spawned =>
          LET last == Len(game'.dragon_spots)
              d == game'.dragon_spots[last]
          IN  /\ d.id \notin Ids(game.dragon_spots)
              /\ d.status = "active"
              /\ d.type = "fire"
              /\ d.location # "Castle"
              /\ \E n \in 1..Len(game'.locations) :
                    /\ game'.locations[n].name = d.location
                    /\ game'.locations[n].xy = d.coordinates
              /\ game'.turn_logs[Len(game'.turn_logs)]
                    = "Dragon spawned at " \o d.location \o "."
              /\ \A i \in 1..Len(game.knights) :
                    (/\ game.knights[i].location = d.location
                     /\ ~MovesKnight(game.knights[i].id)
                     /\ ~(Call("delete_knight")
                          /\ request'.arguments.knight_id = game.knights[i].id)
                     /\ \A j \in 1..(last - 1) :
                           \/ game'.dragon_spots[j].status # "active"
                           \/ game'.dragon_spots[j].location # d.location)
                    => game.knights[i].id \in Ids(game'.knights)]_vars

\* Sir Roland was moved to Castle and the turn of that call spawned a fire
\* spot at North Ridge, where a knight without grace turn stood and no
\* other spot was; the knight is alive
C27_Witness ==
    /\ game.turn_count >= 1
    /\ game.turn_logs[Len(game.turn_logs)] = "Dragon spawned at North Ridge."
    /\ Len(game.dragon_spots) = 1
    /\ game.dragon_spots[1].type = "fire"
    /\ game.dragon_spots[1].location = "North Ridge"
    /\ request.name = "move_knight"
    /\ response.message = "Moved knight 'Sir Roland' to Castle."
    /\ \E k \in 1..Len(game.knights) :
          /\ game.knights[k].name = "Knight"
          /\ game.knights[k].location = "North Ridge"

\* the lines of the log g holds that report a fired trebuchet
FiredAt(g) ==
    {n \in 1..Len(g.turn_logs) :
        g.turn_logs[n] = "Target(s) neutralized (artillery)."}

\* the turns whose header the log g holds after its line n and before its
\* line m
TurnsBetween(g, n, m) ==
    Cardinality({k \in (n + 1)..(m - 1) : startswith(g.turn_logs[k], "--- Turn ")})

\* the turns completed since the trebuchet was last fired
TurnsSinceFired(g) ==
    TurnsBetween(g, CHOOSE n \in FiredAt(g) : \A m \in FiredAt(g) : m <= n,
                 Len(g.turn_logs) + 1)

\* C28: once the trebuchet was fired, create_trebuchet answers with the
\* cooldown message, naming the turns that remain, and changes nothing
\* until three turns are completed since the attack; after the third it
\* builds a trebuchet if none stands.  In sandbox mode no step lowers the
\* cooldown.
C28_CooldownBlocksRebuild ==
    [][/\ (Call("create_trebuchet") /\ FiredAt(game) # {})
          => LET turns == TurnsSinceFired(game)
             IN  IF turns < 3
                 THEN /\ response'.message
                            = "Cannot build trebuchet: cooldown active ("
                                \o ToString(3 - turns) \o " turns remaining)."
                      /\ game' = game
                 ELSE Len(game.trebuchets) = 0
                      => /\ startswith(response'.message, "Built trebuchet at ")
                         /\ Len(game'.trebuchets) = 1
       /\ ~game.game_active
          => game'.trebuchet_cooldown >= game.trebuchet_cooldown]_vars

\* the trebuchet was fired and a new one was built once three turns were
\* completed
C28_Witness ==
    /\ Len(game.trebuchets) = 1
    /\ \E n \in FiredAt(game) :
          \E m \in (n + 1)..Len(game.turn_logs) :
              /\ game.turn_logs[m] = "Built trebuchet at Castle."
              /\ TurnsBetween(game, n, m) = 3

\* the smallest element of the non-empty set S of numbers
Min(S) == CHOOSE n \in S : \A m \in S : n <= m

\* the resolved targets of the attack that are refused when the loop
\* reaches them: for knight those with no knight at their location, for
\* artillery all when no trebuchet stands and all but the first otherwise
Refused(g, resolved, method) ==
    {i \in resolved :
        IF method = "knight" THEN ~knight_at_location(g, g.targets[i].location)
        ELSE Len(g.trebuchets) = 0 \/ i # Min(resolved)}

\* C29: attack_target on the id of a dragon spot with several linked
\* targets goes through them in store order.  If none is refused all are
\* neutralized and the call succeeds.  Otherwise the call answers with the
\* 'Cannot attack with' message of its method, the targets before the
\* first refused one are neutralized, and with them the spot, the first
\* refused one and all after it have the status they had, and the call is
\* neither logged nor followed by a turn; an artillery attack that hit a
\* target before being refused has consumed the trebuchet, set the
\* cooldown to 3 and stamped its effect.
C29_PartialApplication ==
    [][(/\ Call("attack_target")
        /\ request'.arguments.target_id \in Ids(game.dragon_spots)
        /\ Cardinality(Resolved(game, request'.arguments.target_id)) >= 2)
       => LET id == request'.arguments.target_id
              method == lower(request'.arguments.attack_method)
              resolved == Resolved(game, id)
              refused == Refused(game, resolved, method)
          IN  IF refused = {}
              THEN /\ response'.message = "Target(s) neutralized (" \o method \o ")."
                   /\ \A i \in resolved : game'.targets[i].status = "neutralized"
              ELSE /\ startswith(response'.message, "Cannot attack with " \o method)
                   /\ game'.turn_logs = game.turn_logs
                   /\ game'.turn_count = game.turn_count
                   /\ \A i \in resolved :
                         game'.targets[i].status
                             = IF i < Min(refused) THEN "neutralized"
                               ELSE game.targets[i].status
                   /\ IF Min(refused) = Min(resolved)
                      THEN game' = game
                      ELSE /\ ById(game'.dragon_spots, id).status = "neutralized"
                           /\ method = "artillery"
                              => /\ game'.trebuchets = <<>>
                                 /\ game'.trebuchet_cooldown = 3
                                 /\ game'.effect_dragon_killed_by_artillery_at
                                       = Some(game.targets[Min(resolved)].location)]_vars

\* the trebuchet was fired at a spot with two linked targets: the call was
\* refused at the second target and is not in the log, the first target
\* and the spot are neutralized, the second target is active, the
\* trebuchet is gone and the cooldown is 3
C29_Witness ==
    /\ request.name = "attack_target"
    /\ request.arguments.attack_method = "artillery"
    /\ startswith(response.message, "Cannot attack with artillery")
    /\ game.trebuchets = <<>>
    /\ game.trebuchet_cooldown = 3
    /\ Len(game.targets) = 2
    /\ game.targets[1].status = "neutralized"
    /\ game.targets[2].status = "active"
    /\ game.targets[1].linked_dragon_spot_id = Some(request.arguments.target_id)
    /\ game.targets[2].linked_dragon_spot_id = Some(request.arguments.target_id)
    /\ ById(game.dragon_spots, request.arguments.target_id).status = "neutralized"
    /\ \A n \in 1..Len(game.turn_logs) :
          ~startswith(game.turn_logs[n], "Target(s) neutralized")

KnightCall ==
    /\ Call("attack_target")
    /\ lower(request'.arguments.attack_method) = "knight"

\* a knight of the old state stands at loc, in his grace turn or not
KnightStandsAt(loc) ==
    \E k \in 1..Len(game.knights) : game.knights[k].location = loc

\* the largest element of the non-empty set S of numbers
Max(S) == CHOOSE n \in S : \A m \in S : m <= n

\* C30: a knight attack changes the status of a target only if the call
\* resolves to it and a knight stands at the target's location when the
\* call is made.  When a knight stands at the location of every resolved
\* target the call succeeds: the targets are neutralized, the
\* dragon-killed-by-knight effect is the location of the last of them,
\* the trebuchets and the artillery effect are as before and the cooldown
\* is what the turn of the call makes of its old value.  Otherwise the
\* call names the location without knight and leaves trebuchets and
\* cooldown as they were.
C30_KnightAttack ==
    [][KnightCall
       => LET id == request'.arguments.target_id
              resolved == Resolved(game, id)
              unmanned == {i \in resolved :
                             ~KnightStandsAt(game.targets[i].location)}
          IN  /\ Len(game'.targets) = Len(game.targets)
              /\ \A i \in 1..Len(game.targets) :
                    game'.targets[i].status # game.targets[i].status
                    => /\ i \in resolved
                       /\ KnightStandsAt(game.targets[i].location)
                       /\ game'.targets[i].status = "neutralized"
              /\ resolved # {}
                 => IF unmanned = {}
                    THEN /\ response'.message = "Target(s) neutralized (knight)."
                         /\ \A i \in resolved :
                               game'.targets[i].status = "neutralized"
                         /\ game'.effect_dragon_killed_by_knight_at
                               = Some(game.targets[Max(resolved)].location)
                         /\ game'.effect_dragon_killed_by_artillery_at
                               = game.effect_dragon_killed_by_artillery_at
                         /\ game'.trebuchets = game.trebuchets
                         /\ game'.trebuchet_cooldown
                               = IF TurnRan /\ game.trebuchet_cooldown > 0
                                 THEN game.trebuchet_cooldown - 1
                                 ELSE game.trebuchet_cooldown
                    ELSE /\ response'.message
                               = "Cannot attack with knight: no knight at "
                                   \o game.targets[Min(unmanned)].location
                                   \o ". Move a knight there first or use artillery."
                         /\ game'.trebuchets = game.trebuchets
                         /\ game'.trebuchet_cooldown = game.trebuchet_cooldown]_vars

\* in sandbox mode Sir Roland was moved to Castle and, still in his grace
\* turn, attacked the spot there: its target is neutralized, the effect is
\* stamped and the trebuchet stands
C30_Witness ==
    /\ request.name = "attack_target"
    /\ request.arguments.attack_method = "knight"
    /\ response.message = "Target(s) neutralized (knight)."
    /\ ~game.game_active
    /\ game.knights[1].grace_turn
    /\ game.knights[1].location = "Castle"
    /\ game.effect_dragon_killed_by_knight_at = Some("Castle")
    /\ Len(game.trebuchets) = 1
    /\ \E i \in 1..Len(game.targets) :
          /\ game.targets[i].status = "neutralized"
          /\ game.targets[i].location = "Castle"

\* C31: a successful move_knight moves the first knight of the store whose
\* name is the given one but for case, or the first knight when no name is
\* given, and names him in its answer.  In sandbox mode the knights after
\* the call are the knights before it with that knight at the canonical
\* destination, with the coordinates the registry holds for it and with
\* grace_turn true; dragon spots, targets, trebuchets, the mode, the turn
\* count, the cooldown and the effect fields are as before and no id is
\* taken.  In simulation mode the turn of the call leaves the moved knight
\* at the canonical destination and changes no other knight it leaves in
\* the store but for his grace_turn.
C31_MoveKnightFrame ==
    [][Moved
       => LET to == request'.arguments.to_location_name
              i == MovedIndex(game, request'.arguments.knight_name)
              canonical == canonical_location_name(game, to)
          IN  /\ i \in 1..Len(game.knights)
              /\ request'.arguments.knight_name # None
                 => /\ lower(game.knights[i].name)
                         = lower(request'.arguments.knight_name[1])
                    /\ \A k \in 1..(i - 1) :
                          lower(game.knights[k].name)
                              # lower(request'.arguments.knight_name[1])
              /\ response'.message
                    = "Moved knight '" \o game.knights[i].name
                         \o "' to " \o canonical \o "."
              /\ \E n \in 1..Len(game'.locations) :
                    game'.locations[n].name = canonical
              /\ ~game.game_active
                 => /\ game'.knights
                         = [game.knights EXCEPT
                              ![i] = [@ EXCEPT
                                  !.location = canonical,
                                  !.coordinates =
                                      game'.locations[
                                          CHOOSE n \in 1..Len(game'.locations) :
                                              game'.locations[n].name = canonical].xy,
                                  !.grace_turn = TRUE]]
                    /\ [game' EXCEPT !.knights = game.knights,
                                     !.turn_logs = game.turn_logs,
                                     !.locations = game.locations] = game
                    /\ uuid_count' = uuid_count
              /\ game.game_active
                 => /\ game.knights[i].id \in Ids(game'.knights)
                    /\ ById(game'.knights, game.knights[i].id).location = canonical
                    /\ \A k \in 1..Len(game.knights) :
                          (k # i /\ game.knights[k].id \in Ids(game'.knights))
                          => [ById(game'.knights, game.knights[k].id)
                                 EXCEPT !.grace_turn = game.knights[k].grace_turn]
                               = game.knights[k]]_vars

\* in sandbox mode two knights named Knight were added at North Ridge and
\* a move of Knight to Castle took the first of them: Sir Roland and the
\* second Knight are where they were
C31_Witness ==
    /\ request.name = "move_knight"
    /\ request.arguments.knight_name = Some("Knight")
    /\ response.message = "Moved knight 'Knight' to Castle."
    /\ ~game.game_active
    /\ Len(game.knights) = 3
    /\ game.knights[1].name = "Sir Roland"
    /\ game.knights[1].location = "Castle"
    /\ ~game.knights[1].grace_turn
    /\ game.knights[2].name = "Knight"
    /\ game.knights[2].location = "Castle"
    /\ game.knights[2].grace_turn
    /\ game.knights[3].name = "Knight"
    /\ game.knights[3].location = "North Ridge"
    /\ ~game.knights[3].grace_turn

\* the location name a call passes, if it passes one
LocationArgument(req) ==
    IF req.name = "move_knight" THEN Some(req.arguments.to_location_name)
    ELSE IF req.name \in {"add_knight", "create_dragon_spot", "create_trebuchet",
                          "_resolve_location"}
    THEN Some(req.arguments.location_name)
    ELSE IF req.name = "create_target" THEN req.arguments.location_name
    ELSE None

\* C32: every step leaves the names the registry held where they were in
\* it, with their coordinates, and adds at most one name.  A name is added
\* only by a call that passes a location name of which the registry held
\* no variant in casing or surrounding blanks: it is that name trimmed, in
\* the casing given, with coordinates (0,0).  A call that passes a variant
\* of a name the registry holds adds nothing, and a call of
\* _canonical_location_name leaves the registry as it was.
C32_RegistryOnlyGrows ==
    [][LET old == Len(game.locations)
           new == Len(game'.locations)
           held(name) == \E n \in 1..old :
                            lower(game.locations[n].name) = lower(strip(name))
       IN  /\ new \in {old, old + 1}
           /\ SubSeq(game'.locations, 1, old) = game.locations
           /\ new = old + 1
              => /\ LocationArgument(request') # None
                 /\ ~held(LocationArgument(request')[1])
                 /\ game'.locations[new]
                       = [name |-> strip(LocationArgument(request')[1]),
                          xy |-> <<0, 0>>]
           /\ (Idle /\ request' # NoRequest /\ LocationArgument(request') # None)
              => (held(LocationArgument(request')[1]) => new = old)
           /\ Call("_canonical_location_name") => game'.locations = game.locations
      ]_vars

\* Sir Roland was moved to ' north ridge', which added nothing, and a
\* dragon spot was created at Swamp, which the registry now holds after
\* the names of the map, at (0,0)
C32_Witness ==
    /\ request.name = "create_dragon_spot"
    /\ request.arguments.location_name = "Swamp"
    /\ game.knights[1].location = "North Ridge"
    /\ Len(game.locations) = Len(GameMap.locations) + 1
    /\ SubSeq(game.locations, 1, Len(GameMap.locations)) = GameMap.locations
    /\ game.locations[Len(game.locations)] = [name |-> "Swamp", xy |-> <<0, 0>>]

\* the pass of the adversary turn that writes the line: 1 movement,
\* 2 combat, 3 spawn, 0 none of them
PassOf(line) ==
    IF startswith(line, "Dragon moved to ") THEN 1
    ELSE IF startswith(line, "Knight killed at ") THEN 2
    ELSE IF startswith(line, "Dragon spawned at ") THEN 3
    ELSE 0

\* the lines the step adds to a log that stays below its limit
Added ==
    SubSeq(game'.turn_logs, Len(game.turn_logs) + 1, Len(game'.turn_logs))

\* C33: a call other than set_game_active that is made in simulation mode
\* and adds to the log adds, in this order, its answer, the header of the
\* turn, whose number is turn_count after its increment by one, and then
\* lines of the turn only: the dragon-move lines, after them the
\* knight-kill lines and after them at most one spawn line.
C33_LogOrder ==
    [][(/\ Idle
        /\ game.game_active
        /\ request'.name # "set_game_active"
        /\ game'.turn_logs # game.turn_logs
        /\ Len(game'.turn_logs) < LogLimit)
       => /\ Len(game'.turn_logs) >= Len(game.turn_logs) + 2
          /\ SubSeq(game'.turn_logs, 1, Len(game.turn_logs)) = game.turn_logs
          /\ Added[1] = response'.message
          /\ game'.turn_count = game.turn_count + 1
          /\ Added[2] = "--- Turn " \o ToString(game'.turn_count) \o " ---"
          /\ \A n \in 3..Len(Added) : PassOf(Added[n]) # 0
          /\ \A n, m \in 3..Len(Added) :
                n < m => PassOf(Added[n]) <= PassOf(Added[m])
          /\ Cardinality({n \in 3..Len(Added) : PassOf(Added[n]) = 3}) <= 1]_vars

\* a second dragon spot was created in simulation mode: the log ends with
\* the answer, the header of turn 1, the move of a dragon to Castle, the
\* kill of Sir Roland there and a spawn
C33_Witness ==
    /\ request.name = "create_dragon_spot"
    /\ game.turn_count = 1
    /\ Len(game.turn_logs) >= 5
    /\ LET lines == LastLines(game, 5)
       IN  /\ lines[1] = response.message
           /\ lines[2] = "--- Turn 1 ---"
           /\ lines[3] = "Dragon moved to Castle."
           /\ lines[4] = "Knight killed at Castle!"
           /\ PassOf(lines[5]) = 3

\* C34: a move_knight call that answers 'No knights on the map. ...' or
\* 'No knight named ...' leaves the world as it was, the location registry
\* included, whatever the destination.
C34_FailedMoveChangesNothing ==
    [][(Call("move_knight") /\ startswith(response'.message, "No "))
       => game' = game]_vars

\* C35: an attack_target call that answers 'Cannot attack ...' leaves the
\* statuses of all targets and dragon spots, the trebuchets, the cooldown
\* and the effect fields as they were before the call.
C35_RefusedAttackChangesNothing ==
    [][(Call("attack_target") /\ startswith(response'.message, "Cannot attack"))
       => AttackFrame(game') = AttackFrame(game)]_vars

\* the entities of the store s that are neutralized, by id
Neutralized(s) == {s[i].id : i \in {n \in 1..Len(s) : s[n].status = "neutralized"}}

\* C36: every target and every dragon spot is active or neutralized, and
\* no step, whatever call and adversary turn it holds, takes one that is
\* neutralized back to active: while it is in the store it is neutralized.
C36_NeutralizedIsAbsorbing ==
    [][/\ \A i \in 1..Len(game'.targets) :
             game'.targets[i].status \in {"active", "neutralized"}
       /\ \A j \in 1..Len(game'.dragon_spots) :
             game'.dragon_spots[j].status \in {"active", "neutralized"}
       /\ Neutralized(game.targets) \cap Ids(game'.targets)
             \subseteq Neutralized(game'.targets)
       /\ Neutralized(game.dragon_spots) \cap Ids(game'.dragon_spots)
             \subseteq Neutralized(game'.dragon_spots)]_vars

\* a target and its dragon spot were neutralized by the knight in sandbox
\* mode, the simulation was started and the target was attacked again:
\* after the turn of that call target and spot are neutralized
C36_Witness ==
    /\ request.name = "attack_target"
    /\ game.game_active
    /\ game.turn_count = 1
    /\ Len(game.targets) = 1
    /\ request.arguments.target_id = game.targets[1].id
    /\ game.targets[1].status = "neutralized"
    /\ \E j \in 1..Len(game.dragon_spots) :
          /\ Some(game.dragon_spots[j].id) = game.targets[1].linked_dragon_spot_id
          /\ game.dragon_spots[j].status = "neutralized"
    /\ Cardinality({n \in 1..Len(game.turn_logs) :
                      startswith(game.turn_logs[n], "Target(s) neutralized")}) = 2

\* C37: in every reachable state trebuchet_cooldown is 0, 1, 2 or 3, and
\* while it is positive no trebuchet stands.
C37_CooldownRange ==
    /\ game.trebuchet_cooldown \in 0..3
    /\ game.trebuchet_cooldown > 0 => game.trebuchets = <<>>

\* the trebuchet was fired, one turn later a new one was asked for and
\* refused: the cooldown is 2 and no trebuchet stands
C37_Witness ==
    /\ request.name = "create_trebuchet"
    /\ response.message
          = "Cannot build trebuchet: cooldown active (2 turns remaining)."
    /\ game.trebuchet_cooldown = 2
    /\ game.trebuchets = <<>>
    /\ FiredAt(game) # {}

\* in g the targets that are linked to the same dragon spot of the store
\* stand at the same location
LinkedShareLocation(g) ==
    \A i, j \in 1..Len(g.targets) :
        (/\ g.targets[i].linked_dragon_spot_id # None
         /\ g.targets[i].linked_dragon_spot_id[1] \in Ids(g.dragon_spots)
         /\ g.targets[i].linked_dragon_spot_id = g.targets[j].linked_dragon_spot_id)
        => g.targets[i].location = g.targets[j].location

\* C38: in every reachable state the targets linked to one dragon spot of
\* the store share one location, and an attack_target call with method
\* knight that answers 'Cannot attack with knight' has neutralized no
\* target: it leaves the world as it was.
C38_KnightAttackIsAtomic ==
    [][/\ LinkedShareLocation(game')
       /\ (KnightCall /\ startswith(response'.message, "Cannot attack with knight"))
          => game' = game]_vars

\* Sir Roland went to North Ridge and the dragon spot at Castle, which has
\* two linked targets, was attacked with method knight: the call was
\* refused and both targets are active
C38_Witness ==
    /\ request.name = "attack_target"
    /\ request.arguments.attack_method = "knight"
    /\ request.arguments.target_id \in Ids(game.dragon_spots)
    /\ response.message
          = "Cannot attack with knight: no knight at Castle. Move a knight there first or use artillery."
    /\ game.knights[1].location = "North Ridge"
    /\ Len(game.targets) = 2
    /\ \A i \in 1..2 :
          /\ game.targets[i].linked_dragon_spot_id = Some(request.arguments.target_id)
          /\ game.targets[i].location = "Castle"
          /\ game.targets[i].status = "active"
    /\ ById(game.dragon_spots, request.arguments.target_id).status = "active"

====
